---- MODULE Spec2Model ----
(***************************************************************************)
(* Leaderboard backend: the durable store (PostgreSQL table players), the  *)
(* ordered cache (Redis sorted set 'leaderboard' and the three scalar keys *)
(* leaderboard:init_done, leaderboard:sync_offset,                         *)
(* leaderboard:last_known_id), the process-wide flag `processing`, and the *)
(* asynchronous tasks that run on the single Node.js event loop: the       *)
(* startup rebuild, the 10-second delta-sync cron handler, the weekly      *)
(* reward cron handler and the HTTP request handlers.                      *)
(*                                                                         *)
(* One action is one run of a task between two awaits: the code between    *)
(* two suspension points runs atomically on the event loop.  A             *)
(* setImmediatePromise() yield performs no operation and is merged with    *)
(* the await that follows it; ensureSchemaExists() (idempotent DDL) is     *)
(* merged with the await that follows it as well.                          *)
(***************************************************************************)
EXTENDS Integers, Sequences, FiniteSets, TLC

VARIABLES
  money,          \* public.players: money[id] for the ids 1..n (SERIAL)
  leaderboard,    \* Redis sorted set 'leaderboard': member id -> score
  init_done,      \* Redis key leaderboard:init_done (string, Nil if absent)
  sync_offset,    \* Redis key leaderboard:sync_offset
  last_known_id,  \* Redis key leaderboard:last_known_id
  processing,     \* leaderboardService.ts: let processing = false
  pc,             \* position of every task
  ini,            \* locals of initializeLeaderboard, one frame per caller
  dl,             \* locals of the delta cron handler / syncOnePageOfNewPlayers
  wk,             \* locals of the weekly handler / distributeWeeklyRewards
  rq,             \* locals of the request handlers
  event,          \* what the last step reported: log line, return, throw, response
  weeks,          \* number of weekly distributions started so far
  loaded          \* the last rebuild that cleared the sorted set has completed

vars == <<money, leaderboard, init_done, sync_offset, last_known_id, processing,
          pc, ini, dl, wk, rq, event, weeks, loaded>>

redis == <<leaderboard, init_done, sync_offset, last_known_id>>

---------------------------------------------------------------------------
(* Bounds of the model *)

MaxPlayers == 2
MaxWeeks == 1
NewMoney == {1000}
MaxBeyond == 7
MaxBonus == 3
BulkRows == 2000
NumCountries == 3
MaxSignups == 7
Reqs == {"q1"}

(* Program constants *)

InitPageSizeDB == 500000
InitChunkSizeRedis == 50000
DeltaPageSizeDB == 100000
DeltaChunkSizeRedis == 50000
MinBatch == 1000
MaxPageSizeDB == 1000000
MaxChunkSizeRedis == 100000
MaxDeltaPages == 5
TopStop == 99
GroupTop == 10

Callers == {"startup", "weekly"} \cup Reqs
Tasks == {"startup", "weekly", "delta"} \cup Reqs

Nil == <<>>

Min(a, b) == IF a < b THEN a ELSE b
Max(a, b) == IF a > b THEN a ELSE b

---------------------------------------------------------------------------
(* Strings of decimal digits, as Redis stores the scalar keys *)

RECURSIVE toString(_)
toString(n) == IF n < 10 THEN <<n>> ELSE Append(toString(n \div 10), n % 10)

RECURSIVE parseInt(_)
parseInt(s) ==
  IF Len(s) = 0 THEN 0
  ELSE 10 * parseInt(SubSeq(s, 1, Len(s) - 1)) + s[Len(s)]

\* str ? parseInt(str, 10) : 0
ParseOrZero(s) == IF s = Nil THEN 0 ELSE parseInt(s)

---------------------------------------------------------------------------
(* The store *)

RECURSIVE SortAsc(_)
SortAsc(S) ==
  IF S = {} THEN <<>>
  ELSE LET m == CHOOSE x \in S : \A y \in S : x <= y
       IN  <<m>> \o SortAsc(S \ {m})

\* variant: the OFFSET is ignored, every page starts at the first row
SelectFromStart(above, lim, off) ==
  LET base == Max(above, 0)
      hi   == Min(lim, Max(Len(money) - base, 0))
  IN  [n \in 1..hi |-> [id |-> base + n, money |-> money[base + n]]]

\* SELECT id, money FROM players WHERE id > above ORDER BY id ASC LIMIT lim OFFSET off
\* (the ids are 1..Len(money): the ids above `above` in ascending order are
\* above + 1, above + 2, ...)
SelectPage(above, lim, off) ==
  LET base == Max(above, 0)
      hi   == Min(off + lim, Max(Len(money) - base, 0))
  IN  [n \in 1..(hi - off) |->
         [id |-> base + off + n, money |-> money[base + off + n]]]

\* SELECT COALESCE(MAX(id), 0) FROM players
SelectMaxId ==
  IF DOMAIN money = {} THEN 0
  ELSE CHOOSE x \in DOMAIN money : \A y \in DOMAIN money : y <= x

---------------------------------------------------------------------------
(* The sorted set *)

EmptySet == <<>>

\* rows.slice(a, b)
Slice(rows, a, b) == SubSeq(rows, a + 1, Min(b, Len(rows)))

\* pipeline of zadd('leaderboard', r.money, r.id.toString()) for r of slice
\* variant: the score of a member already present is incremented (zincrby)
ZIncrAll(lb, slice) ==
  [p \in DOMAIN lb \cup {slice[n].id : n \in 1..Len(slice)} |->
     IF \E n \in 1..Len(slice) : slice[n].id = p
     THEN (IF p \in DOMAIN lb THEN lb[p] ELSE 0)
          + (CHOOSE m \in {slice[n].money : n \in 1..Len(slice)} :
               \E n \in 1..Len(slice) : slice[n].id = p /\ slice[n].money = m)
     ELSE lb[p]]

\* a later zadd of the same member replaces the score of an earlier one
\* (consecutive: the ids of the slice ascend by one, so the ids are an
\* interval and the row of an id is found by its distance from the first)
Upsert(lb, slice, ids, consecutive) ==
  LET lastOf(p) == CHOOSE n \in 1..Len(slice) :
                     /\ slice[n].id = p
                     /\ \A k \in 1..Len(slice) : slice[k].id = p => k <= n
      first == slice[1].id
      last  == slice[1].id + Len(slice) - 1
  IN  IF consecutive /\ Len(slice) > 0
      THEN [p \in DOMAIN lb \cup (first..last) |->
              IF first <= p /\ p <= last THEN slice[p - first + 1].money ELSE lb[p]]
      ELSE [p \in DOMAIN lb \cup ids |->
              IF p \in ids THEN slice[lastOf(p)].money ELSE lb[p]]

ZAddAll(lb, slice) ==
  CHOOSE res \in {Upsert(lb, slice, ids, consecutive) :
                    ids \in {{slice[n].id : n \in 1..Len(slice)}},
                    consecutive \in {\A n \in 1..Len(slice) : slice[n].id = slice[1].id + n - 1}} :
    TRUE

\* Redis orders members of equal score by the bytes of the member string
RECURSIVE LexLess(_, _)
LexLess(s, t) ==
  IF Len(t) = 0 THEN FALSE
  ELSE IF Len(s) = 0 THEN TRUE
  ELSE IF s[1] # t[1] THEN s[1] < t[1]
  ELSE LexLess(Tail(s), Tail(t))

\* a ranks before b in reverse (descending) order
RevBefore(lb, a, b) ==
  \/ lb[a] > lb[b]
  \/ lb[a] = lb[b] /\ LexLess(toString(b), toString(a))

\* ZREVRANK: 0-based position in descending order
ZRevRank(lb, a) == Cardinality({b \in DOMAIN lb : b # a /\ RevBefore(lb, b, a)})

\* ZREVRANGE start stop: members by descending rank
\* the 0-based rank of every member
Ranks(lb) == [a \in DOMAIN lb |-> ZRevRank(lb, a)]

\* the members at the 0-based ranks start..hi, given the rank of every member
Slots(rk, start, hi) ==
  [n \in 1..(hi - start + 1) |-> CHOOSE a \in DOMAIN rk : rk[a] = start + n - 1]

\* (the ranks are bound once, not recomputed for every position)
ZRevRange(lb, start, stop) ==
  LET hi == Min(stop, Cardinality(DOMAIN lb) - 1)
  IN  CHOOSE res \in {Slots(rk, start, hi) : rk \in {Ranks(lb)}} : TRUE

---------------------------------------------------------------------------
(* initializeLeaderboard: full rebuild *)

IdleReq == [kind |-> "plain", playerId |-> 0, top100 |-> <<>>, rank |-> 0,
            unionIds |-> <<>>, joined |-> <<>>, k |-> 0, result |-> <<>>,
            loaded |-> FALSE]

\* error: the class of the error a task threw, "" when it threw none
NoEvent == [task |-> "", what |-> "", status |-> 0, kind |-> "", body |-> <<>>,
            loaded |-> FALSE, error |-> ""]
Event(t, w) == [NoEvent EXCEPT !.task = t, !.what = w]

IdleFrame == [pc |-> "off", pageSizeDB |-> 0, chunkSizeRedis |-> 0, offset |-> 0,
              totalProcessed |-> 0, rows |-> <<>>, i |-> 0, maxId |-> 0,
              money0 |-> <<>>, lastKnown0 |-> Nil]

\* if (remain < chunkSizeRedis) chunkSizeRedis = remain;
ClampChunk(chunk, rows, i) == IF Len(rows) - i < chunk THEN Len(rows) - i ELSE chunk

\* Math.floor(x / 2)
Halve(x) == x \div 2

\* where the caller continues once initializeLeaderboard has returned or thrown
AfterInit(c, result) ==
  IF c = "startup" THEN "done"
  ELSE IF c = "weekly" THEN "idle"
  ELSE IF result = "initError" THEN "idle" ELSE "top100"

\* the caller resumes: startup and the weekly handler log a thrown error,
\* asyncHandler passes it to the error handler of the request
ResumeWith(c, result, e) ==
  /\ pc' = [pc EXCEPT ![c] = AfterInit(c, result)]
  /\ event' = IF c \in Reqs /\ result = "initError"
              THEN [Event(c, result) EXCEPT !.status = 500, !.kind = rq[c].kind,
                                            !.error = e]
              ELSE [Event(c, result) EXCEPT !.error = e]
  /\ rq' = IF c \in Reqs /\ result = "initError"
           THEN [rq EXCEPT ![c] = IdleReq]
           ELSE rq

Resume(c, result) == ResumeWith(c, result, IF result = "initError" THEN "Error" ELSE "")

\* variant: the lock test never finds the lock held
LockHeldNever == FALSE

\* the lock test of initializeLeaderboard, line 37
LockHeld == processing

\* lines 37-45: the call itself, made in the same event-loop turn as the
\* caller's preceding code; it runs up to the first await
EnterInit(c) ==
  IF LockHeld
  THEN /\ Resume(c, "initSkipped")
       /\ UNCHANGED <<processing, ini>>
  ELSE /\ processing' = TRUE
       /\ ini' = [ini EXCEPT ![c] = [IdleFrame EXCEPT !.pc = "delFlag", !.money0 = money,
                                                      !.lastKnown0 = last_known_id]]
       /\ pc' = [pc EXCEPT ![c] = "init"]
       /\ event' = NoEvent
       /\ UNCHANGED rq

\* variant: an exit path that returns without clearing the lock
AbortKeepLock(c) ==
  /\ UNCHANGED processing
  /\ ini' = [ini EXCEPT ![c] = IdleFrame]
  /\ Resume(c, "initError")

\* variant: the error is swallowed and the caller resumes as after a rebuild
AbortSwallowed(c) ==
  /\ processing' = FALSE
  /\ ini' = [ini EXCEPT ![c] = IdleFrame]
  /\ Resume(c, "initOk")

\* a throw inside the try block: the finally block, then the caller
Abort(c) ==
  /\ processing' = FALSE
  /\ ini' = [ini EXCEPT ![c] = IdleFrame]
  /\ Resume(c, "initError")

\* throw e of line 119: the RangeError leaves through the finally block
AbortRange(c) ==
  /\ processing' = FALSE
  /\ ini' = [ini EXCEPT ![c] = IdleFrame]
  /\ ResumeWith(c, "initError", "RangeError")

\* await ensureSchemaExists() throws
InitSchemaFail(c) ==
  /\ pc[c] = "init" /\ ini[c].pc = "delFlag"
  /\ Abort(c)
  /\ UNCHANGED <<money, redis, dl, wk, weeks, loaded>>

\* variant: the rebuild starts without deleting the flag
InitDelFlagKeeps(c) ==
  /\ pc[c] = "init" /\ ini[c].pc = "delFlag"
  /\ ini' = [ini EXCEPT ![c].pc = "delLeaderboard"]
  /\ event' = NoEvent
  /\ UNCHANGED <<money, redis, processing, pc, dl, wk, rq, weeks, loaded>>

\* await redis.del('leaderboard:init_done')
InitDelFlag(c) ==
  /\ pc[c] = "init" /\ ini[c].pc = "delFlag"
  /\ init_done' = Nil
  /\ ini' = [ini EXCEPT ![c].pc = "delLeaderboard"]
  /\ event' = NoEvent
  /\ UNCHANGED <<money, leaderboard, sync_offset, last_known_id, processing, pc,
                 dl, wk, rq, weeks, loaded>>

\* await redis.del('leaderboard')
InitDelLeaderboard(c) ==
  /\ pc[c] = "init" /\ ini[c].pc = "delLeaderboard"
  /\ leaderboard' = EmptySet
  /\ loaded' = FALSE
  /\ ini' = [ini EXCEPT ![c].pc = "setOffset"]
  /\ event' = NoEvent
  /\ UNCHANGED <<money, init_done, sync_offset, last_known_id, processing, pc,
                 dl, wk, rq, weeks>>

\* await redis.set('leaderboard:sync_offset', '0'), then lines 56-61
InitSetOffset(c) ==
  /\ pc[c] = "init" /\ ini[c].pc = "setOffset"
  /\ sync_offset' = <<0>>
  /\ ini' = [ini EXCEPT ![c].pc = "readPage",
                        ![c].pageSizeDB = InitPageSizeDB,
                        ![c].chunkSizeRedis = InitChunkSizeRedis,
                        ![c].offset = 0,
                        ![c].totalProcessed = 0]
  /\ event' = NoEvent
  /\ UNCHANGED <<money, leaderboard, init_done, last_known_id, processing, pc,
                 dl, wk, rq, weeks, loaded>>

\* lines 66-73, 85-97: the page query succeeds
InitReadPage(c) ==
  /\ pc[c] = "init" /\ ini[c].pc = "readPage"
  /\ \E rows \in {SelectPage(0, ini[c].pageSizeDB, ini[c].offset)} :
         ini' = IF Len(rows) = 0
                THEN [ini EXCEPT ![c].pc = "maxQuery", ![c].rows = rows]
                ELSE [ini EXCEPT ![c].pc = "writeChunk", ![c].rows = rows, ![c].i = 0,
                                 ![c].chunkSizeRedis =
                                    ClampChunk(ini[c].chunkSizeRedis, rows, 0)]
  /\ event' = NoEvent
  /\ UNCHANGED <<money, redis, processing, pc, dl, wk, rq, weeks, loaded>>

\* variant: the retry moves on to the next page
InitReadFailSkips(c) ==
  /\ pc[c] = "init" /\ ini[c].pc = "readPage"
  /\ LET half == Halve(ini[c].pageSizeDB)
     IN  IF half < MinBatch
         THEN Abort(c)
         ELSE /\ ini' = [ini EXCEPT ![c].pageSizeDB = half,
                                    ![c].offset = ini[c].offset + half]
              /\ event' = Event(c, "readFailed")
              /\ UNCHANGED <<processing, pc, rq>>
  /\ UNCHANGED <<money, redis, dl, wk, weeks, loaded>>

\* variant: below 1000 the page size starts over instead of the rebuild aborting
InitReadFailRestarts(c) ==
  /\ pc[c] = "init" /\ ini[c].pc = "readPage"
  /\ LET half == Halve(ini[c].pageSizeDB)
     IN  ini' = [ini EXCEPT ![c].pageSizeDB = IF half < MinBatch THEN InitPageSizeDB ELSE half]
  /\ event' = Event(c, "readFailed")
  /\ UNCHANGED <<money, redis, processing, pc, rq, dl, wk, weeks, loaded>>

\* lines 74-83: the page query fails
InitReadFail(c) ==
  /\ pc[c] = "init" /\ ini[c].pc = "readPage"
  /\ LET half == Halve(ini[c].pageSizeDB)
     IN  IF half < MinBatch
         THEN Abort(c)
         ELSE /\ ini' = [ini EXCEPT ![c].pageSizeDB = half]
              /\ event' = Event(c, "readFailed")
              /\ UNCHANGED <<processing, pc, rq>>
  /\ UNCHANGED <<money, redis, dl, wk, weeks, loaded>>

\* lines 101-114, then 95-97 or 128-134: one chunk is written
InitWriteChunk(c) ==
  /\ pc[c] = "init" /\ ini[c].pc = "writeChunk"
  /\ \E f \in {ini[c]} :
     \E slice \in {Slice(f.rows, f.i, f.i + f.chunkSizeRedis)} :
     \E i2 \in {f.i + Len(slice)} :
         /\ leaderboard' = ZAddAll(leaderboard, slice)
         /\ ini' = IF i2 < Len(f.rows)
                   THEN [ini EXCEPT ![c].i = i2,
                                    ![c].totalProcessed = f.totalProcessed + Len(slice),
                                    ![c].chunkSizeRedis =
                                       ClampChunk(f.chunkSizeRedis, f.rows, i2)]
                   ELSE [ini EXCEPT ![c].i = i2,
                                    ![c].totalProcessed = f.totalProcessed + Len(slice),
                                    ![c].offset = f.offset + Len(f.rows),
                                    ![c].pageSizeDB = Min(f.pageSizeDB * 2, MaxPageSizeDB),
                                    ![c].chunkSizeRedis =
                                       Min(f.chunkSizeRedis * 2, MaxChunkSizeRedis),
                                    ![c].pc = "readPage"]
  /\ event' = NoEvent
  /\ UNCHANGED <<money, init_done, sync_offset, last_known_id, processing, pc,
                 dl, wk, rq, weeks, loaded>>

\* variant: the overflow is retried with the chunk size unchanged
InitWriteOverflowKeeps(c) ==
  /\ pc[c] = "init" /\ ini[c].pc = "writeChunk"
  /\ event' = Event(c, "overflow")
  /\ UNCHANGED <<money, redis, processing, pc, ini, rq, dl, wk, weeks, loaded>>

\* lines 115-119: the pipeline throws a RangeError (nothing of the chunk is applied)
InitWriteOverflow(c) ==
  /\ pc[c] = "init" /\ ini[c].pc = "writeChunk"
  /\ LET half == Halve(ini[c].chunkSizeRedis)
     IN  IF half < MinBatch
         THEN AbortRange(c)
         ELSE /\ ini' = [ini EXCEPT ![c].chunkSizeRedis = half]
              /\ event' = Event(c, "overflow")
              /\ UNCHANGED <<processing, pc, rq>>
  /\ UNCHANGED <<money, redis, dl, wk, weeks, loaded>>

\* lines 120-123: the pipeline throws another error
InitWriteError(c) ==
  /\ pc[c] = "init" /\ ini[c].pc = "writeChunk"
  /\ Abort(c)
  /\ UNCHANGED <<money, redis, dl, wk, weeks, loaded>>

\* lines 138-141: SELECT COALESCE(MAX(id), 0)
InitMaxQuery(c) ==
  /\ pc[c] = "init" /\ ini[c].pc = "maxQuery"
  /\ ini' = [ini EXCEPT ![c].pc = "setLastKnown", ![c].maxId = SelectMaxId]
  /\ event' = NoEvent
  /\ UNCHANGED <<money, redis, processing, pc, dl, wk, rq, weeks, loaded>>

\* the max-id query fails
InitMaxQueryFail(c) ==
  /\ pc[c] = "init" /\ ini[c].pc = "maxQuery"
  /\ Abort(c)
  /\ UNCHANGED <<money, redis, dl, wk, weeks, loaded>>

\* await redis.set('leaderboard:last_known_id', maxId.toString())
InitSetLastKnown(c) ==
  /\ pc[c] = "init" /\ ini[c].pc = "setLastKnown"
  /\ last_known_id' = toString(ini[c].maxId)
  /\ ini' = [ini EXCEPT ![c].pc = "setDone"]
  /\ event' = NoEvent
  /\ UNCHANGED <<money, leaderboard, init_done, sync_offset, processing, pc,
                 dl, wk, rq, weeks, loaded>>

\* await redis.set('leaderboard:init_done', '1'), the finally block and the return
InitSetDone(c) ==
  /\ pc[c] = "init" /\ ini[c].pc = "setDone"
  /\ init_done' = <<1>>
  /\ loaded' = TRUE
  /\ processing' = FALSE
  /\ ini' = [ini EXCEPT ![c] = IdleFrame]
  /\ Resume(c, "initOk")
  /\ UNCHANGED <<money, leaderboard, sync_offset, last_known_id, dl, wk, weeks>>

Rebuild(c) ==
  \/ InitDelFlag(c)
  \/ InitDelLeaderboard(c)
  \/ InitSetOffset(c)
  \/ InitReadPage(c)
  \/ InitWriteChunk(c)
  \/ InitMaxQuery(c)
  \/ InitSetLastKnown(c)
  \/ InitSetDone(c)

RebuildFault(c) ==
  \/ InitSchemaFail(c)
  \/ InitReadFail(c)
  \/ InitWriteOverflow(c)
  \/ InitWriteError(c)
  \/ InitMaxQueryFail(c)

\* index.ts: app.listen callback calls initializeLeaderboard().catch(...)
Startup ==
  /\ pc["startup"] = "start"
  /\ EnterInit("startup")
  /\ UNCHANGED <<money, redis, dl, wk, weeks, loaded>>

---------------------------------------------------------------------------
(* cron/jobs.ts: the 10-second handler and syncOnePageOfNewPlayers *)

IdleDelta == [j |-> 0, lastKnownId |-> 0, syncOffset |-> 0, chunkSizeRedis |-> 0,
              rows |-> <<>>, i |-> 0]

\* variant: a cron handler that does not test the lock
CronLockHeldNever == FALSE

\* the lock test of the cron handlers, jobs.ts lines 13 and 36
CronLockHeld == processing

\* jobs.ts lines 12-21: the trigger
DeltaTrigger ==
  /\ pc["delta"] = "idle"
  /\ IF CronLockHeld
     THEN /\ event' = Event("delta", "skipped")
          /\ UNCHANGED <<pc, dl>>
     ELSE /\ pc' = [pc EXCEPT !["delta"] = "getLastKnown"]
          /\ dl' = IdleDelta
          /\ event' = NoEvent
  /\ UNCHANGED <<money, redis, processing, ini, wk, rq, weeks, loaded>>

\* catch (error) { console.error('[cron delta] Error:', error) }
DeltaThrow(e) ==
  /\ pc' = [pc EXCEPT !["delta"] = "idle"]
  /\ dl' = IdleDelta
  /\ event' = [Event("delta", "deltaError") EXCEPT !.error = e]

DeltaCaught == DeltaThrow("Error")

\* lines 158-162
DeltaGetLastKnown ==
  /\ pc["delta"] = "getLastKnown"
  /\ dl' = [dl EXCEPT !.lastKnownId = ParseOrZero(last_known_id)]
  /\ pc' = [pc EXCEPT !["delta"] = "getOffset"]
  /\ event' = NoEvent
  /\ UNCHANGED <<money, redis, processing, ini, wk, rq, weeks, loaded>>

\* lines 165-169
DeltaGetOffset ==
  /\ pc["delta"] = "getOffset"
  /\ dl' = [dl EXCEPT !.syncOffset = ParseOrZero(sync_offset),
                      !.chunkSizeRedis = DeltaChunkSizeRedis]
  /\ pc' = [pc EXCEPT !["delta"] = "query"]
  /\ event' = NoEvent
  /\ UNCHANGED <<money, redis, processing, ini, wk, rq, weeks, loaded>>

\* lines 173-190
DeltaQuery ==
  /\ pc["delta"] = "query"
  /\ \E rows \in {SelectPage(dl.lastKnownId, DeltaPageSizeDB, dl.syncOffset)} :
         IF Len(rows) = 0
         THEN /\ dl' = [dl EXCEPT !.rows = rows]
              /\ pc' = [pc EXCEPT !["delta"] = "resetOffset"]
         ELSE /\ dl' = [dl EXCEPT !.rows = rows, !.i = 0,
                                  !.chunkSizeRedis = ClampChunk(dl.chunkSizeRedis, rows, 0)]
              /\ pc' = [pc EXCEPT !["delta"] = "writeChunk"]
  /\ event' = NoEvent
  /\ UNCHANGED <<money, redis, processing, ini, wk, rq, weeks, loaded>>

\* the page query throws: nothing in syncOnePageOfNewPlayers catches it
DeltaQueryFail ==
  /\ pc["delta"] = "query"
  /\ DeltaCaught
  /\ UNCHANGED <<money, redis, processing, ini, wk, rq, weeks, loaded>>

\* variant: an empty page ends the pass without resetting the offset
DeltaResetOffsetKeeps ==
  /\ pc["delta"] = "resetOffset"
  /\ pc' = [pc EXCEPT !["delta"] = "idle"]
  /\ dl' = IdleDelta
  /\ event' = NoEvent
  /\ UNCHANGED <<money, redis, processing, ini, wk, rq, weeks, loaded>>

\* lines 181-185 and jobs.ts lines 22-24
DeltaResetOffset ==
  /\ pc["delta"] = "resetOffset"
  /\ sync_offset' = <<0>>
  /\ pc' = [pc EXCEPT !["delta"] = "idle"]
  /\ dl' = IdleDelta
  /\ event' = NoEvent
  /\ UNCHANGED <<money, leaderboard, init_done, last_known_id,
                 processing, ini, wk, rq, weeks, loaded>>

\* lines 194-206
DeltaWriteChunk ==
  /\ pc["delta"] = "writeChunk"
  /\ \E slice \in {Slice(dl.rows, dl.i, dl.i + dl.chunkSizeRedis)} :
     \E i2 \in {dl.i + Len(slice)} :
         /\ leaderboard' = ZAddAll(leaderboard, slice)
         /\ IF i2 < Len(dl.rows)
            THEN /\ dl' = [dl EXCEPT !.i = i2,
                                     !.chunkSizeRedis = ClampChunk(dl.chunkSizeRedis, dl.rows, i2)]
                 /\ pc' = pc
            ELSE /\ dl' = [dl EXCEPT !.i = i2]
                 /\ pc' = [pc EXCEPT !["delta"] = "setOffset"]
  /\ event' = NoEvent
  /\ UNCHANGED <<money, init_done, sync_offset, last_known_id,
                 processing, ini, wk, rq, weeks, loaded>>

\* variant: the retry starts after the rows of the failed chunk
DeltaWriteOverflowSkips ==
  /\ pc["delta"] = "writeChunk"
  /\ LET half == Halve(dl.chunkSizeRedis)
     IN  IF half < MinBatch
         THEN DeltaThrow("RangeError")
         ELSE /\ dl' = [dl EXCEPT !.chunkSizeRedis = half, !.i = dl.i + half]
              /\ event' = Event("delta", "overflow")
              /\ UNCHANGED pc
  /\ UNCHANGED <<money, redis, processing, ini, wk, rq, weeks, loaded>>

\* lines 207-210
DeltaWriteOverflow ==
  /\ pc["delta"] = "writeChunk"
  /\ LET half == Halve(dl.chunkSizeRedis)
     IN  IF half < MinBatch
         THEN DeltaThrow("RangeError")
         ELSE /\ dl' = [dl EXCEPT !.chunkSizeRedis = half]
              /\ event' = Event("delta", "overflow")
              /\ UNCHANGED pc
  /\ UNCHANGED <<money, redis, processing, ini, wk, rq, weeks, loaded>>

\* variant: a pass that fails puts the offset back to 0
DeltaWriteErrorResets ==
  /\ pc["delta"] = "writeChunk"
  /\ DeltaCaught
  /\ sync_offset' = <<0>>
  /\ UNCHANGED <<money, leaderboard, init_done, last_known_id, processing, ini, wk, rq,
                 weeks, loaded>>

\* lines 211-213
DeltaWriteError ==
  /\ pc["delta"] = "writeChunk"
  /\ DeltaCaught
  /\ UNCHANGED <<money, redis, processing, ini, wk, rq, weeks, loaded>>

\* variant: a pass that has applied its page moves last_known_id past its rows
DeltaSetOffsetAdvances ==
  /\ pc["delta"] = "setOffset"
  /\ sync_offset' = toString(dl.syncOffset + Len(dl.rows))
  /\ last_known_id' = toString(dl.rows[Len(dl.rows)].id)
  /\ dl' = IF dl.j + 1 < MaxDeltaPages THEN [IdleDelta EXCEPT !.j = dl.j + 1] ELSE IdleDelta
  /\ pc' = [pc EXCEPT !["delta"] = IF dl.j + 1 < MaxDeltaPages THEN "getLastKnown" ELSE "idle"]
  /\ event' = NoEvent
  /\ UNCHANGED <<money, leaderboard, init_done, processing, ini, wk, rq, weeks, loaded>>

\* lines 218-221 and the loop of jobs.ts lines 20-25
DeltaSetOffset ==
  /\ pc["delta"] = "setOffset"
  /\ sync_offset' = toString(dl.syncOffset + Len(dl.rows))
  /\ IF dl.j + 1 < MaxDeltaPages
     THEN /\ dl' = [IdleDelta EXCEPT !.j = dl.j + 1]
          /\ pc' = [pc EXCEPT !["delta"] = "getLastKnown"]
          /\ event' = NoEvent
     ELSE /\ dl' = IdleDelta
          /\ pc' = [pc EXCEPT !["delta"] = "idle"]
          /\ event' = NoEvent
  /\ UNCHANGED <<money, leaderboard, init_done, last_known_id,
                 processing, ini, wk, rq, weeks, loaded>>

DeltaSync ==
  \/ DeltaGetLastKnown
  \/ DeltaGetOffset
  \/ DeltaQuery
  \/ DeltaResetOffset
  \/ DeltaWriteChunk
  \/ DeltaSetOffset

DeltaFault ==
  \/ DeltaQueryFail
  \/ DeltaWriteOverflow
  \/ DeltaWriteError

---------------------------------------------------------------------------
(* cron/jobs.ts: the weekly handler and distributeWeeklyRewards *)

\* paid: the ids of playersList for which the last distribution issued an
\* update, kept after distributeWeeklyRewards has returned
IdleWeekly == [playersList |-> <<>>, pending |-> {}, paid |-> {}]

\* variant: the amount is truncated
RoundDown(num, den) == num \div den

\* Math.round(num / den) for num >= 0, den > 0
RoundDiv(num, den) == (2 * num + den) \div (2 * den)

\* Math.round(amount) of lines 344-357, with totalPool = totalMoney * 0.02
Payout(rank, totalMoney) ==
  IF rank = 1 THEN RoundDiv(totalMoney * 2 * 20, 100 * 100)
  ELSE IF rank = 2 THEN RoundDiv(totalMoney * 2 * 15, 100 * 100)
  ELSE IF rank = 3 THEN RoundDiv(totalMoney * 2 * 10, 100 * 100)
  ELSE RoundDiv(totalMoney * 2 * (100 - (20 + 15 + 10)), 100 * 100 * 97)

RECURSIVE SumScores(_)
SumScores(list) ==
  IF Len(list) = 0 THEN 0 ELSE list[1].score + SumScores(Tail(list))

\* jobs.ts lines 35-43: the trigger
WeeklyTrigger ==
  /\ pc["weekly"] = "idle"
  /\ IF CronLockHeld
     THEN /\ event' = Event("weekly", "skipped")
          /\ UNCHANGED <<pc, weeks>>
     ELSE /\ weeks < MaxWeeks
          /\ weeks' = weeks + 1
          /\ pc' = [pc EXCEPT !["weekly"] = "zrevrange"]
          /\ event' = NoEvent
  /\ UNCHANGED <<money, redis, processing, ini, dl, wk, rq, loaded>>

\* lines 323-360: the top 100 are read and every UPDATE is issued
WeeklyRead ==
  /\ pc["weekly"] = "zrevrange"
  /\ \E top \in {ZRevRange(leaderboard, 0, TopStop)} :
       \E list \in {[n \in 1..Len(top) |-> [id |-> top[n], score |-> leaderboard[top[n]]]]} :
         \E totalMoney \in {SumScores(list)} :
           wk' = [playersList |-> list,
                  paid |-> {list[n].id : n \in 1..Len(list)},
                  pending |-> wk.pending \cup
                     {[id |-> list[n].id, amount |-> Payout(n, totalMoney), week |-> weeks]
                        : n \in 1..Len(list)}]
  /\ pc' = [pc EXCEPT !["weekly"] = "pay"]
  /\ event' = NoEvent
  /\ UNCHANGED <<money, redis, processing, ini, dl, rq, weeks, loaded>>

\* variant: the UPDATE sets money to the amount
WeeklyUpdateOverwrites ==
  /\ \E u \in wk.pending :
       /\ money' = [money EXCEPT ![u.id] = u.amount]
       /\ wk' = [wk EXCEPT !.pending = wk.pending \ {u}]
  /\ event' = NoEvent
  /\ UNCHANGED <<redis, processing, pc, ini, dl, rq, weeks, loaded>>

\* UPDATE public.players SET money = money + $1 WHERE id = $2
WeeklyUpdate ==
  /\ \E u \in wk.pending :
       /\ money' = [money EXCEPT ![u.id] = money[u.id] + u.amount]
       /\ wk' = [wk EXCEPT !.pending = wk.pending \ {u}]
  /\ event' = NoEvent
  /\ UNCHANGED <<redis, processing, pc, ini, dl, rq, weeks, loaded>>

\* one UPDATE fails: Promise.all rejects and the handler logs the error,
\* the other updates already issued still run
WeeklyUpdateFail ==
  /\ \E u \in wk.pending :
       IF pc["weekly"] = "pay" /\ u.week = weeks
       THEN /\ pc' = [pc EXCEPT !["weekly"] = "idle"]
            /\ wk' = [wk EXCEPT !.playersList = <<>>, !.pending = wk.pending \ {u}]
            /\ event' = Event("weekly", "payError")
       ELSE /\ wk' = [wk EXCEPT !.pending = wk.pending \ {u}]
            /\ event' = NoEvent
            /\ UNCHANGED pc
  /\ UNCHANGED <<money, redis, processing, ini, dl, rq, weeks, loaded>>

\* lines 362-363 and jobs.ts lines 44-45: all updates done, the rebuild is called
WeeklyPaid ==
  /\ pc["weekly"] = "pay"
  /\ \A u \in wk.pending : u.week # weeks
  /\ wk' = [wk EXCEPT !.playersList = <<>>]
  /\ EnterInit("weekly")
  /\ UNCHANGED <<money, redis, dl, weeks, loaded>>

Weekly ==
  \/ WeeklyRead
  \/ WeeklyUpdate
  \/ WeeklyPaid

---------------------------------------------------------------------------
(* server.ts, the single-file server: its weekly handler holds the flag
   isProcessing itself, from the trigger to its finally block *)

\* the lock test of initializeLeaderboard in server.ts, line 95
MonoLockHeld == processing

\* server.ts lines 413-420: the trigger takes the flag
MonoWeeklyTrigger ==
  /\ pc["weekly"] = "idle"
  /\ IF processing
     THEN /\ event' = Event("weekly", "skipped")
          /\ UNCHANGED <<pc, weeks, processing>>
     ELSE /\ weeks < MaxWeeks
          /\ weeks' = weeks + 1
          /\ processing' = TRUE
          /\ pc' = [pc EXCEPT !["weekly"] = "zrevrange"]
          /\ event' = NoEvent
  /\ UNCHANGED <<money, redis, ini, dl, wk, rq, loaded>>

\* server.ts lines 448-457: all updates done, initializeLeaderboard is called
\* (lines 94-99); when it returns at once the handler logs and its finally
\* block clears the flag
MonoWeeklyPaid ==
  /\ pc["weekly"] = "pay"
  /\ \A u \in wk.pending : u.week # weeks
  /\ wk' = [wk EXCEPT !.playersList = <<>>]
  /\ IF MonoLockHeld
     THEN /\ pc' = [pc EXCEPT !["weekly"] = "idle"]
          /\ event' = Event("weekly", "initSkipped")
          /\ processing' = FALSE
          /\ UNCHANGED <<ini, rq>>
     ELSE EnterInit("weekly")
  /\ UNCHANGED <<money, redis, dl, weeks, loaded>>

---------------------------------------------------------------------------
(* External write path: a player is created (id from the SERIAL sequence) *)

CreatePlayer ==
  /\ Cardinality(DOMAIN money) < MaxPlayers
  /\ \E m \in NewMoney : money' = Append(money, m)
  /\ event' = NoEvent
  /\ UNCHANGED <<redis, processing, pc, ini, dl, wk, rq, weeks, loaded>>

\* a player signs up while the store holds fewer than MaxSignups players
Signup ==
  /\ Len(money) < MaxSignups
  /\ \E m \in NewMoney : money' = Append(money, m)
  /\ event' = NoEvent
  /\ UNCHANGED <<redis, processing, pc, ini, dl, wk, rq, weeks, loaded>>

\* seed.ts insertBatchPlayers: one multi-row INSERT appends a batch of players
InsertBatch ==
  /\ Len(money) <= BulkRows
  /\ \E m \in NewMoney : money' = money \o [k \in 1..BulkRows |-> m]
  /\ event' = NoEvent
  /\ UNCHANGED <<redis, processing, pc, ini, dl, wk, rq, weeks, loaded>>

---------------------------------------------------------------------------
(* routes/leaderboardRoutes.ts and getLeaderboardData *)

ReqKinds == {"plain", "group", "auto"}
NoPlayer == 0
\* the ids a request may name: none, every id of a small store and the one
\* after the last, and for a large store the first ids and the last ones
ReqPlayerIds ==
  {NoPlayer} \cup {p \in 1..(Len(money) + 1) :
                     p <= MaxPlayers \/ p + MaxBeyond + 3 > Len(money)}

\* a request arrives
RequestStart(r) ==
  /\ pc[r] = "idle"
  /\ \E kind \in ReqKinds, p \in ReqPlayerIds :
       /\ kind # "plain" => p = NoPlayer
       /\ rq' = [rq EXCEPT ![r] = [IdleReq EXCEPT !.kind = kind, !.playerId = p]]
  /\ pc' = [pc EXCEPT ![r] = "checkReady"]
  /\ event' = NoEvent
  /\ UNCHANGED <<money, redis, processing, ini, dl, wk, weeks, loaded>>

\* variant: the readiness check lets every request through
NotReadyNever(initDone) == FALSE

\* if (!initDone)
NotReady(initDone) == initDone = Nil

\* res.status(...).json(...) and the handler returns
Reply(r, status, body, ld) ==
  /\ event' = [task |-> r, what |-> "reply", status |-> status, kind |-> rq[r].kind,
               body |-> body, loaded |-> ld, error |-> ""]
  /\ rq' = [rq EXCEPT ![r] = IdleReq]
  /\ pc' = [pc EXCEPT ![r] = "idle"]

\* routes lines 24-34, 79-86: const initDone = await redis.get('leaderboard:init_done')
CheckReady(r) ==
  /\ pc[r] = "checkReady"
  /\ IF NotReady(init_done)
     THEN Reply(r, 503, <<[error |-> "IndexingInProgress"]>>, FALSE)
     ELSE /\ rq' = rq
          /\ event' = NoEvent
          /\ pc' = [pc EXCEPT ![r] = IF rq[r].kind = "group" THEN "groupQuery"
                                     ELSE IF rq[r].kind = "auto" THEN "autoQuery"
                                     ELSE "exists"]
  /\ UNCHANGED <<money, redis, processing, ini, dl, wk, weeks, loaded>>

\* players.country_id: the first of every eight players is of country 1, the
\* others alternate over the remaining countries
CountryOf(p) == IF p % 8 = 1 THEN 1 ELSE 2 + (p % (NumCountries - 1))

\* the position of countries.name in the collation: the names sort in the
\* reverse of the country ids
NameKey(k) == NumCountries + 1 - k

\* ORDER BY p.money DESC leaves the order of equal money to the executor: it
\* is one of the orders of TieOrders
TieOrders == {"asc", "desc"}

GroupBefore(m, t, a, b) ==
  \/ m[a] > m[b]
  \/ m[a] = m[b] /\ (IF t = "asc" THEN a < b ELSE a > b)

\* ROW_NUMBER() OVER (PARTITION BY p.country_id ORDER BY p.money DESC)
RowNumber(m, t) ==
  [p \in DOMAIN m |->
     1 + Cardinality({q \in DOMAIN m : CountryOf(q) = CountryOf(p) /\ GroupBefore(m, t, q, p)})]

\* ORDER BY sub.country, sub.rank
RowKeyLess(rn, a, b) ==
  \/ NameKey(CountryOf(a)) < NameKey(CountryOf(b))
  \/ CountryOf(a) = CountryOf(b) /\ rn[a] < rn[b]

\* the rows of the players of `kept` in the order of the outer query
GroupRows(m, rn, kept) ==
  [i \in 1..Cardinality(kept) |->
     LET p == CHOOSE q \in kept : Cardinality({x \in kept : RowKeyLess(rn, x, q)}) = i - 1
     IN  [id |-> p, country |-> CountryOf(p), money |-> m[p], rank |-> rn[p]]]

\* WHERE sub.rank <= 10
KeptRows(m, rn) ==
  CHOOSE res \in {GroupRows(m, rn, kept) : kept \in {{p \in DOMAIN m : rn[p] <= GroupTop}}} : TRUE

\* routes lines 41-60: the whole query over the player table m
GroupSelect(m, t) ==
  CHOOSE res \in {KeptRows(m, rn) : rn \in {RowNumber(m, t)}} : TRUE

\* variant: the rows are taken from the sorted set
GroupQueryFromCache(r) ==
  /\ pc[r] = "groupQuery"
  /\ \E t \in TieOrders : Reply(r, 200, GroupSelect(leaderboard, t), FALSE)
  /\ UNCHANGED <<money, redis, processing, ini, dl, wk, weeks, loaded>>

\* routes lines 38-63: the per-country query on the store
GroupQuery(r) ==
  /\ pc[r] = "groupQuery"
  /\ \E t \in TieOrders : Reply(r, 200, GroupSelect(money, t), FALSE)
  /\ UNCHANGED <<money, redis, processing, ini, dl, wk, weeks, loaded>>

\* routes lines 88-93 and autocompletePlayers
AutoQuery(r) ==
  /\ pc[r] = "autoQuery"
  /\ Reply(r, 200, <<>>, FALSE)
  /\ UNCHANGED <<money, redis, processing, ini, dl, wk, weeks, loaded>>

\* lines 230-232: await redis.exists('leaderboard')
Exists(r) ==
  /\ pc[r] = "exists"
  /\ IF DOMAIN leaderboard = {}
     THEN EnterInit(r)
     ELSE /\ pc' = [pc EXCEPT ![r] = "zcard"]
          /\ event' = NoEvent
          /\ UNCHANGED <<processing, ini, rq>>
  /\ UNCHANGED <<money, redis, dl, wk, weeks, loaded>>

\* lines 234-237: await redis.zcard('leaderboard')
Zcard(r) ==
  /\ pc[r] = "zcard"
  /\ IF Cardinality(DOMAIN leaderboard) = 0
     THEN EnterInit(r)
     ELSE /\ pc' = [pc EXCEPT ![r] = "top100"]
          /\ event' = NoEvent
          /\ UNCHANGED <<processing, ini, rq>>
  /\ UNCHANGED <<money, redis, dl, wk, weeks, loaded>>

\* lines 241-245, 263-270: await redis.zrevrange('leaderboard', 0, 99)
Top100(r) ==
  /\ pc[r] = "top100"
  /\ LET top == ZRevRange(leaderboard, 0, TopStop)
     IN  IF rq[r].playerId # NoPlayer
         THEN /\ rq' = [rq EXCEPT ![r].top100 = top, ![r].loaded = loaded]
              /\ pc' = [pc EXCEPT ![r] = "zrevrank"]
              /\ event' = NoEvent
         ELSE IF Len(top) = 0
         THEN Reply(r, 200, <<>>, loaded)
         ELSE /\ rq' = [rq EXCEPT ![r].top100 = top, ![r].unionIds = top,
                                  ![r].loaded = loaded]
              /\ pc' = [pc EXCEPT ![r] = "hydrate"]
              /\ event' = NoEvent
  /\ UNCHANGED <<money, redis, processing, ini, dl, wk, weeks, loaded>>

NotInLeaderboard == <<[error |-> "Player not found in leaderboard yet"]>>

\* variant: an id that is not a member is answered with the top 100
PlayerRankLenient(r) ==
  /\ pc[r] = "zrevrank"
  /\ IF Len(rq[r].top100) = 0
     THEN Reply(r, 200, <<>>, rq[r].loaded)
     ELSE /\ rq' = [rq EXCEPT ![r].unionIds = rq[r].top100]
          /\ pc' = [pc EXCEPT ![r] = "hydrate"]
          /\ event' = NoEvent
  /\ UNCHANGED <<money, redis, processing, ini, dl, wk, weeks, loaded>>

\* lines 246-255, 268-270: await redis.zrevrank('leaderboard', playerId)
PlayerRank(r) ==
  /\ pc[r] = "zrevrank"
  /\ IF rq[r].playerId \notin DOMAIN leaderboard
     THEN Reply(r, 200, NotInLeaderboard, rq[r].loaded)
     ELSE LET rank == ZRevRank(leaderboard, rq[r].playerId)
          IN  IF rank >= TopStop + 1
              THEN /\ rq' = [rq EXCEPT ![r].rank = rank]
                   /\ pc' = [pc EXCEPT ![r] = "extra"]
                   /\ event' = NoEvent
              ELSE IF Len(rq[r].top100) = 0
              THEN Reply(r, 200, <<>>, rq[r].loaded)
              ELSE /\ rq' = [rq EXCEPT ![r].rank = rank, ![r].unionIds = rq[r].top100]
                   /\ pc' = [pc EXCEPT ![r] = "hydrate"]
                   /\ event' = NoEvent
  /\ UNCHANGED <<money, redis, processing, ini, dl, wk, weeks, loaded>>

\* variant: the neighbours are appended without the filter
FilteredNone(extra, top) == extra

\* extra.filter((x) => !top100.includes(x))
Filtered(extra, top) == SelectSeq(extra, LAMBDA x : \A n \in 1..Len(top) : top[n] # x)

\* variant: the neighbourhood reaches one rank further down
ExtraWide(r) ==
  /\ pc[r] = "extra"
  /\ LET extraStart == Max(rq[r].rank - 3, 0)
         extraEnd   == rq[r].rank + 3
         extra      == ZRevRange(leaderboard, extraStart, extraEnd)
         unionIds   == rq[r].top100 \o Filtered(extra, rq[r].top100)
     IN  /\ rq' = [rq EXCEPT ![r].unionIds = unionIds]
         /\ pc' = [pc EXCEPT ![r] = "hydrate"]
         /\ event' = NoEvent
  /\ UNCHANGED <<money, redis, processing, ini, dl, wk, weeks, loaded>>

\* lines 257-261, 268-270: await redis.zrevrange('leaderboard', extraStart, extraEnd)
Extra(r) ==
  /\ pc[r] = "extra"
  /\ LET extraStart == Max(rq[r].rank - 3, 0)
         extraEnd   == rq[r].rank + 2
         extra      == ZRevRange(leaderboard, extraStart, extraEnd)
         unionIds   == rq[r].top100 \o Filtered(extra, rq[r].top100)
     IN  IF Len(unionIds) = 0
         THEN Reply(r, 200, <<>>, rq[r].loaded)
         ELSE /\ rq' = [rq EXCEPT ![r].unionIds = unionIds]
              /\ pc' = [pc EXCEPT ![r] = "hydrate"]
              /\ event' = NoEvent
  /\ UNCHANGED <<money, redis, processing, ini, dl, wk, weeks, loaded>>

\* the first position from k on in unionIds whose id the store query returned
RECURSIVE NextJoined(_, _, _)
NextJoined(unionIds, joined, k) ==
  IF k > Len(unionIds) \/ unionIds[k] \in joined THEN k
  ELSE NextJoined(unionIds, joined, k + 1)

\* lines 273-289: SELECT ... WHERE p.id IN (unionIds), then the loop up to its first await
Hydrate(r) ==
  /\ pc[r] = "hydrate"
  /\ LET ids    == {rq[r].unionIds[n] : n \in 1..Len(rq[r].unionIds)} \cap DOMAIN money
         k      == NextJoined(rq[r].unionIds, ids, 1)
         joined == [id \in ids |-> money[id]]
     IN  IF k > Len(rq[r].unionIds)
         THEN Reply(r, 200, <<>>, rq[r].loaded)
         ELSE /\ rq' = [rq EXCEPT ![r].joined = joined, ![r].k = k, ![r].result = <<>>]
              /\ pc' = [pc EXCEPT ![r] = "rankEach"]
              /\ event' = NoEvent
  /\ UNCHANGED <<money, redis, processing, ini, dl, wk, weeks, loaded>>

Null == -1

\* variant: the 0-based rank is attached
RankEachZeroBased(r) ==
  /\ pc[r] = "rankEach"
  /\ LET id     == rq[r].unionIds[rq[r].k]
         rk     == IF id \in DOMAIN leaderboard THEN ZRevRank(leaderboard, id) ELSE Null
         result == Append(rq[r].result, [id |-> id, money |-> rq[r].joined[id], rank |-> rk])
         k      == NextJoined(rq[r].unionIds, DOMAIN rq[r].joined, rq[r].k + 1)
     IN  IF k > Len(rq[r].unionIds)
         THEN Reply(r, 200, result, rq[r].loaded)
         ELSE /\ rq' = [rq EXCEPT ![r].k = k, ![r].result = result]
              /\ pc' = pc
              /\ event' = NoEvent
  /\ UNCHANGED <<money, redis, processing, ini, dl, wk, weeks, loaded>>

\* variant: members of equal score share a rank
RankEachByScore(r) ==
  /\ pc[r] = "rankEach"
  /\ LET id     == rq[r].unionIds[rq[r].k]
         rk     == IF id \in DOMAIN leaderboard
                   THEN 1 + Cardinality({a \in DOMAIN leaderboard : leaderboard[a] > leaderboard[id]})
                   ELSE Null
         result == Append(rq[r].result, [id |-> id, money |-> rq[r].joined[id], rank |-> rk])
         k      == NextJoined(rq[r].unionIds, DOMAIN rq[r].joined, rq[r].k + 1)
     IN  IF k > Len(rq[r].unionIds)
         THEN Reply(r, 200, result, rq[r].loaded)
         ELSE /\ rq' = [rq EXCEPT ![r].k = k, ![r].result = result]
              /\ pc' = pc
              /\ event' = NoEvent
  /\ UNCHANGED <<money, redis, processing, ini, dl, wk, weeks, loaded>>

\* lines 287-298: const r = await redis.zrevrank('leaderboard', id)
RankEach(r) ==
  /\ pc[r] = "rankEach"
  /\ LET id     == rq[r].unionIds[rq[r].k]
         rk     == IF id \in DOMAIN leaderboard THEN ZRevRank(leaderboard, id) + 1 ELSE Null
         result == Append(rq[r].result, [id |-> id, money |-> rq[r].joined[id], rank |-> rk])
         k      == NextJoined(rq[r].unionIds, DOMAIN rq[r].joined, rq[r].k + 1)
     IN  IF k > Len(rq[r].unionIds)
         THEN Reply(r, 200, result, rq[r].loaded)
         ELSE /\ rq' = [rq EXCEPT ![r].k = k, ![r].result = result]
              /\ pc' = pc
              /\ event' = NoEvent
  /\ UNCHANGED <<money, redis, processing, ini, dl, wk, weeks, loaded>>

\* Extra(r) needs a rank of 100 or more: it is taken only with more than 100 members
Request(r) ==
  \/ RequestStart(r)
  \/ CheckReady(r)
  \/ GroupQuery(r)
  \/ AutoQuery(r)
  \/ Exists(r)
  \/ Zcard(r)
  \/ Top100(r)
  \/ PlayerRank(r)
  \/ Hydrate(r)
  \/ RankEach(r)

---------------------------------------------------------------------------
(* The system *)

Init ==
  /\ \E n \in 0..(MaxPlayers - 1) : money \in [1..n -> NewMoney]
  /\ leaderboard = EmptySet
  /\ init_done = Nil
  /\ sync_offset = Nil
  /\ last_known_id = Nil
  /\ processing = FALSE
  /\ pc = [t \in Tasks |-> IF t = "startup" THEN "start" ELSE "idle"]
  /\ ini = [c \in Callers |-> IdleFrame]
  /\ dl = IdleDelta
  /\ wk = IdleWeekly
  /\ rq = [r \in Reqs |-> IdleReq]
  /\ event = NoEvent
  /\ weeks = 0
  /\ loaded = FALSE

\* the process exits and is started again: the module state of the new process
\* is that of index.ts and leaderboardService.ts at load, Redis and the store
\* keep what they hold
Restart ==
  /\ pc["startup"] # "start"
  /\ processing' = FALSE
  /\ pc' = [t \in Tasks |-> IF t = "startup" THEN "start" ELSE "idle"]
  /\ ini' = [c \in Callers |-> IdleFrame]
  /\ dl' = IdleDelta
  /\ wk' = [wk EXCEPT !.playersList = <<>>, !.paid = {}]
  /\ rq' = [r \in Reqs |-> IdleReq]
  /\ event' = Event("startup", "restart")
  /\ UNCHANGED <<money, redis, weeks, loaded>>

\* the synchronisation tasks: startup, the two cron handlers, the external writer
Next ==
  \/ Startup
  \/ \E c \in Callers : Rebuild(c)
  \/ DeltaTrigger
  \/ DeltaSync
  \/ WeeklyTrigger
  \/ Weekly
  \/ CreatePlayer

Spec == Init /\ [][Next]_vars

\* the request handlers beside the rebuilds, with store and cache failures
NextServe ==
  \/ Startup
  \/ \E c \in Callers : Rebuild(c)
  \/ \E c \in Callers : RebuildFault(c)
  \/ WeeklyTrigger
  \/ Weekly
  \/ \E r \in Reqs : Request(r)
  \/ CreatePlayer

SpecServe == Init /\ [][NextServe]_vars

\* startup and delta sync with every call succeeding; the cron trigger keeps
\* firing and every pending await completes
NextLive ==
  \/ Startup
  \/ Rebuild("startup")
  \/ DeltaTrigger
  \/ DeltaSync
  \/ CreatePlayer

SpecLive ==
  /\ Init
  /\ [][NextLive]_vars
  /\ WF_vars(Startup)
  /\ WF_vars(Rebuild("startup"))
  /\ WF_vars(DeltaTrigger)
  /\ WF_vars(DeltaSync)

\* startup and delta sync across process restarts
NextRestart ==
  \/ Startup
  \/ Rebuild("startup")
  \/ DeltaTrigger
  \/ DeltaSync
  \/ CreatePlayer
  \/ Restart

SpecRestart == Init /\ [][NextRestart]_vars

\* a seeded store of one player or one batch, nothing loaded yet, at the
\* moment the listen callback has called initializeLeaderboard (lines 37-45)
BulkSizes == {1, BulkRows}

InitBulk ==
  /\ \E n \in BulkSizes, m \in NewMoney : money = [p \in 1..n |-> m + p]
  /\ leaderboard = EmptySet
  /\ init_done = Nil
  /\ sync_offset = Nil
  /\ last_known_id = Nil
  /\ processing = TRUE
  /\ pc = [t \in Tasks |-> IF t = "startup" THEN "init" ELSE "idle"]
  /\ ini = [c \in Callers |->
              IF c = "startup"
              THEN [IdleFrame EXCEPT !.pc = "delFlag", !.money0 = money,
                                     !.lastKnown0 = last_known_id]
              ELSE IdleFrame]
  /\ dl = IdleDelta
  /\ wk = IdleWeekly
  /\ rq = [r \in Reqs |-> IdleReq]
  /\ event = NoEvent
  /\ weeks = 0
  /\ loaded = FALSE

\* the startup rebuild and delta sync over batches of rows, with failures of
\* the pipeline and of the delta query
NextBulk ==
  \/ Rebuild("startup")
  \/ InitWriteOverflow("startup")
  \/ InitWriteError("startup")
  \/ DeltaTrigger
  \/ DeltaSync
  \/ DeltaFault
  \/ InsertBatch

SpecBulk == InitBulk /\ [][NextBulk]_vars

\* a store of n players whose scores follow one of four shapes
ScoreKinds == {"desc", "asc", "tied", "pairs"}

Score(kind, p, n) ==
  IF kind = "desc" THEN 1000 * (n - p + 1)
  ELSE IF kind = "asc" THEN 1000 * p
  ELSE IF kind = "tied" THEN (IF p = 1 THEN 500 ELSE 300)
  ELSE 1000 * ((p + 1) \div 2)

WindowSizes == {1, 3} \cup {TopStop + 1 + k : k \in 0..MaxBeyond}

\* the state a completed rebuild leaves for the store [p |-> m[p]]: startup done,
\* lock free, every task idle
Loaded(m) ==
  /\ money = m
  /\ leaderboard = m
  /\ init_done = <<1>>
  /\ sync_offset = <<0>>
  /\ last_known_id = toString(Len(m))
  /\ processing = FALSE
  /\ pc = [t \in Tasks |-> IF t = "startup" THEN "done" ELSE "idle"]
  /\ ini = [c \in Callers |-> IdleFrame]
  /\ dl = IdleDelta
  /\ wk = IdleWeekly
  /\ rq = [r \in Reqs |-> IdleReq]
  /\ event = NoEvent
  /\ weeks = 0
  /\ loaded = TRUE

InitWindow ==
  \E n \in WindowSizes, kind \in ScoreKinds : Loaded([p \in 1..n |-> Score(kind, p, n)])

\* requests against a loaded sorted set that nothing else touches
NextWindow ==
  \/ \E r \in Reqs : Request(r)
  \/ \E r \in Reqs : Extra(r)

SpecWindow == InitWindow /\ [][NextWindow]_vars

\* stores for the weekly distribution: n players of one score, the first
\* with a bonus that moves the pool across rounding boundaries
PayoutSizes == {1, 2, 3, 4, TopStop, TopStop + 1, TopStop + 2}
PayoutBases == {1000, 10000}

InitPayout ==
  \E n \in PayoutSizes, base \in PayoutBases, bonus \in 0..MaxBonus :
     Loaded([p \in 1..n |-> IF p = 1 THEN base + 125 * bonus ELSE base])

\* the weekly handler up to the point where every UPDATE has been issued
NextPayout ==
  \/ WeeklyTrigger
  \/ WeeklyRead

SpecPayout == InitPayout /\ [][NextPayout]_vars

\* stores for the group query: loaded, the request handlers, and players
\* created after the load
GroupSizes == {1, 3, 50}

InitGroup ==
  \E n \in GroupSizes, kind \in ScoreKinds : Loaded([p \in 1..n |-> Score(kind, p, n)])

NextGroup ==
  \/ \E r \in Reqs : Request(r)
  \/ CreatePlayer

SpecGroup == InitGroup /\ [][NextGroup]_vars

\* delta sync alone against a loaded store that keeps receiving players, with
\* failures of the query and of the pipeline
DeltaSizes == {0, 1}

InitDelta ==
  \E n \in DeltaSizes, kind \in ScoreKinds : Loaded([p \in 1..n |-> Score(kind, p, n)])

NextDelta ==
  \/ DeltaTrigger
  \/ DeltaSync
  \/ DeltaFault
  \/ Signup

SpecDelta == InitDelta /\ [][NextDelta]_vars

\* the startup rebuild alone over a store that receives no inserts, every
\* page query and every pipeline free to fail; every await settles
NextHalt ==
  \/ Rebuild("startup")
  \/ RebuildFault("startup")

SpecHalt == InitBulk /\ [][NextHalt]_vars /\ WF_vars(NextHalt)

\* server.ts: a loaded store of a few players (server.ts keeps no readiness
\* key), the weekly handler and its updates
MonoSizes == {1, 2, 3, 4}

InitMono ==
  /\ \E n \in MonoSizes, kind \in ScoreKinds : money = [p \in 1..n |-> Score(kind, p, n)]
  /\ leaderboard = money
  /\ init_done = Nil
  /\ sync_offset = <<0>>
  /\ last_known_id = toString(Len(money))
  /\ processing = FALSE
  /\ pc = [t \in Tasks |-> IF t = "startup" THEN "done" ELSE "idle"]
  /\ ini = [c \in Callers |-> IdleFrame]
  /\ dl = IdleDelta
  /\ wk = IdleWeekly
  /\ rq = [r \in Reqs |-> IdleReq]
  /\ event = NoEvent
  /\ weeks = 0
  /\ loaded = TRUE

NextMono ==
  \/ MonoWeeklyTrigger
  \/ WeeklyRead
  \/ WeeklyUpdate
  \/ MonoWeeklyPaid

SpecMono == InitMono /\ [][NextMono]_vars

---------------------------------------------------------------------------
(* Properties *)

SameMap(lb, m) == DOMAIN lb = DOMAIN m /\ \A p \in DOMAIN lb : lb[p] = m[p]

RebuildRunning(c) == pc[c] = "init"
DeltaRunning == pc["delta"] # "idle"
DistributionRunning == pc["weekly"] \in {"zrevrange", "pay"}

\* C1: at most one of full rebuild, delta sync and reward distribution is in
\* progress in every reachable state
C1_SingleFlight ==
  /\ \A c, d \in Callers : RebuildRunning(c) /\ RebuildRunning(d) => c = d
  /\ ~ (DeltaRunning /\ \E c \in Callers : RebuildRunning(c))
  /\ ~ (DistributionRunning /\ \E c \in Callers : RebuildRunning(c))
  /\ ~ (DeltaRunning /\ DistributionRunning)

\* C2: every step that changes the sorted set or one of the three sync-state
\* keys is taken while processing is true
C2_WritesUnderLock ==
  [][redis' # redis => processing]_vars

\* a result list: every element is a player row, none an error object
IsList(body) == \A i \in 1..Len(body) : "id" \in DOMAIN body[i]

\* C3: a successful ranking list is never computed from a sorted set that a
\* rebuild has cleared and not finished reloading
C3_NoPartialView ==
  (event.what = "reply" /\ event.kind = "plain" /\ event.status = 200
     /\ IsList(event.body)) => event.loaded

\* C4: a request that finds init_done unset at its check answers 503 and is
\* finished, without touching the sorted set, the store or the rebuild
C4_NotReadyRefused ==
  [][\A r \in Reqs :
       (pc[r] = "checkReady" /\ pc'[r] # "checkReady" /\ init_done = Nil) =>
         /\ event'.task = r /\ event'.what = "reply" /\ event'.status = 503
         /\ pc'[r] = "idle"
         /\ UNCHANGED <<money, redis, processing, ini>>]_vars

C4_Witness ==
  event.what = "reply" /\ event.status = 503 /\ event.kind = "auto"

\* C5: whenever a rebuild ends, on any exit path, processing is false, and
\* processing is never true without a rebuild in progress
C5_LockReleased ==
  /\ [](processing => \E c \in Callers : RebuildRunning(c))
  /\ [][\A c \in Callers :
          (RebuildRunning(c) /\ ~ RebuildRunning(c)') => ~ processing']_vars

C5_Witness ==
  event.what = "initError" /\ ~ processing /\ leaderboard # EmptySet

\* C6: a trigger or a call that finds processing true starts nothing and
\* changes nothing
C6_SkipIsNoOp ==
  [][/\ (processing /\ pc["delta"] = "idle") => pc'["delta"] = "idle"
     /\ (processing /\ pc["weekly"] = "idle") => pc'["weekly"] = "idle"
     /\ \A c \in Callers : (processing /\ ~ RebuildRunning(c)) => ~ RebuildRunning(c)'
     /\ event'.what \in {"skipped", "initSkipped"} =>
          /\ processing
          /\ UNCHANGED <<money, redis, processing, ini, dl, weeks>>
          /\ wk'.pending = wk.pending
          /\ pc'[event'.task] \in {"idle", "done", "top100"}]_vars

C6_Witness ==
  event = Event("delta", "skipped") /\ processing

\* C7: a rebuild that completes while the store is as it was at its start
\* leaves the sorted set equal to the store's id -> money map and has applied
\* as many rows as the store holds
C7_RebuildExact ==
  [][\A c \in Callers :
       (ini[c].pc = "setDone" /\ ini'[c].pc = "off" /\ money = ini[c].money0) =>
          /\ SameMap(leaderboard', money)
          /\ ini[c].totalProcessed = Len(money)]_vars

RebuildMidway(c) == ini[c].pc \notin {"off", "delFlag"}

\* C8: while init_done is set no rebuild is between clearing and completion;
\* the sorted set is cleared only with init_done unset, and init_done is set
\* only after an empty page was read and last_known_id was written
C8_ReadyMeansLoaded ==
  /\ [](init_done # Nil => \A c \in Callers : ~ RebuildMidway(c))
  /\ [][/\ (leaderboard' = EmptySet /\ leaderboard # EmptySet) => init_done = Nil
        /\ (init_done' # Nil /\ init_done = Nil) =>
             \E c \in Callers : /\ ini[c].pc = "setDone"
                                /\ ini[c].rows = <<>>
                                /\ last_known_id = toString(ini[c].maxId)]_vars

C8_Witness ==
  init_done = <<1>> /\ leaderboard # EmptySet /\ \E c \in Callers : ini[c].pc = "delFlag"

\* C9: a rebuild that aborts during the load reports the error to its caller,
\* leaves init_done unset and last_known_id as it was before the rebuild; only
\* a completing rebuild sets init_done
C9_AbortKeepsState ==
  [][/\ \A c \in Callers :
          (ini[c].pc \in {"readPage", "writeChunk", "maxQuery"} /\ ini'[c].pc = "off") =>
             /\ event'.task = c /\ event'.what = "initError"
             /\ c \in Reqs => event'.status = 500
             /\ init_done' = Nil
             /\ last_known_id' = ini[c].lastKnown0
     /\ (init_done = Nil /\ init_done' # Nil) => event'.what = "initOk"]_vars

C9_Witness ==
  event.what = "initError" /\ init_done = Nil /\ last_known_id # Nil
    /\ leaderboard # EmptySet

Visible(p) == p \in DOMAIN leaderboard /\ leaderboard[p] = money[p]

\* C10: eventually every player with id > last_known_id is in the sorted set
\* with its store money, and stays there
C10_EventuallyVisible ==
  <>[](\A p \in DOMAIN money : p > ParseOrZero(last_known_id) => Visible(p))

C10_Witness ==
  /\ last_known_id # Nil
  /\ \E p \in DOMAIN money : p > ParseOrZero(last_known_id) /\ Visible(p)

\* C11: a startup that finds init_done, last_known_id and sync_offset set and
\* the sorted set as the last completed rebuild left it starts no rebuild
C11_RestartResumes ==
  [][(/\ pc["startup"] = "start" /\ pc'["startup"] # "start"
      /\ init_done # Nil /\ last_known_id # Nil /\ sync_offset # Nil
      /\ loaded) => pc'["startup"] # "init"]_vars

\* C12: a getLeaderboardData call that finds the sorted set absent or empty
\* runs a rebuild, and reads the top 100 only after that rebuild has completed
C12_SelfHealing ==
  [][\A r \in Reqs :
       /\ (pc[r] \in {"exists", "zcard"} /\ pc'[r] # pc[r] /\ DOMAIN leaderboard = {})
            => pc'[r] = "init"
       /\ (pc[r] = "init" /\ pc'[r] = "top100")
            => (event'.task = r /\ event'.what = "initOk")]_vars

\* the ids of a result list, in order
Ids(body) == [i \in 1..Len(body) |-> body[i].id]

\* the members at the 1-based ranks of the set K, in ascending rank order
AtRanks(rk, K) ==
  LET ks == SortAsc(K)
  IN  [i \in 1..Len(ks) |-> CHOOSE a \in DOMAIN rk : rk[a] + 1 = ks[i]]

\* ranks 1..100, and for a requested rank r > 100 the existing ranks of
\* r-3..r+2 beyond them
WindowRanks(rk, p) ==
  LET n == Cardinality(DOMAIN rk)
      r == rk[p] + 1
  IN  IF p = NoPlayer \/ r <= 100
      THEN {k \in 1..100 : k <= n}
      ELSE {k \in 1..100 : k <= n} \cup {k \in (r - 3)..(r + 2) : 1 <= k /\ k <= n}

ExpectedWindow(lb, p) ==
  CHOOSE w \in {AtRanks(rk, WindowRanks(rk, p)) : rk \in {Ranks(lb)}} : TRUE

\* the step in which request r answers 200 with a result list
ListReply(r) ==
  /\ pc[r] # "idle" /\ pc'[r] = "idle"
  /\ event'.task = r /\ event'.what = "reply" /\ event'.kind = "plain"
  /\ event'.status = 200 /\ IsList(event'.body)

\* C13: against an unchanging sorted set the ids of the answer are the members
\* at ranks 1..100, followed for a requested rank r > 100 by the members at the
\* existing ranks of r-3..r+2 not among them, in ascending rank order
C13_WindowLaw ==
  [][\A r \in Reqs :
       ListReply(r) => Ids(event'.body) = ExpectedWindow(leaderboard, rq[r].playerId)]_vars

C13_Witness ==
  /\ event.what = "reply" /\ event.status = 200 /\ IsList(event.body)
  /\ Len(event.body) = 103
  /\ event.body[103].rank = 103

\* C14 as stated: a result list has at most 105 entries
C14_AtMost105 ==
  (event.what = "reply" /\ event.kind = "plain" /\ event.status = 200
     /\ IsList(event.body)) => Len(event.body) <= 105

\* C14, amended: a result list has at most 106 entries, the top 100 and the
\* six ranks r-3..r+2
C14_AtMost106 ==
  (event.what = "reply" /\ event.kind = "plain" /\ event.status = 200
     /\ IsList(event.body)) => Len(event.body) <= 106

C14_Witness ==
  /\ event.what = "reply" /\ event.kind = "plain" /\ event.status = 200
  /\ IsList(event.body) /\ Len(event.body) = 106

\* C15: a request whose player id is not a member when its rank is read is
\* answered with the error object and ends; a request that names a player is
\* past its rank read only if the id was a member then
C15_ExplicitSignal ==
  [][\A r \in Reqs :
       (pc[r] = "zrevrank" /\ pc'[r] # "zrevrank") =>
          IF rq[r].playerId \in DOMAIN leaderboard
          THEN pc'[r] \in {"hydrate", "extra"} \/ ListReply(r)
          ELSE /\ event'.task = r /\ event'.what = "reply"
               /\ event'.body = NotInLeaderboard
               /\ pc'[r] = "idle"]_vars

C15_Witness ==
  /\ event.what = "reply" /\ event.body = NotInLeaderboard
  /\ leaderboard # EmptySet

\* C16: the answer given for a player that is in the store but not in the
\* sorted set is not given for a player id the store does not hold
C16_Distinguishable ==
  [][\A r \in Reqs :
       (pc[r] = "zrevrank" /\ event'.task = r /\ event'.what = "reply"
          /\ event'.body = NotInLeaderboard) => rq[r].playerId \in DOMAIN money]_vars

Greater(lb, a) == Cardinality({b \in DOMAIN lb : lb[b] > lb[a]})
AtLeast(lb, a) == Cardinality({b \in DOMAIN lb : lb[b] >= lb[a]})

Answered ==
  /\ event.what = "reply" /\ event.kind = "plain" /\ event.status = 200
  /\ IsList(event.body)

\* C17 as stated: every returned rank is 1 + the number of members of
\* strictly greater score
C17_RankLaw ==
  Answered =>
    \A i \in 1..Len(event.body) :
       event.body[i].rank = 1 + Greater(leaderboard, event.body[i].id)

\* C17, amended: every returned rank lies between 1 + the number of members of
\* strictly greater score and the number of members of greater or equal score
\* (so it is 1 + the number of strictly greater scores when the score is not shared)
C17_RankBounds ==
  Answered =>
    \A i \in 1..Len(event.body) :
       /\ event.body[i].rank >= 1 + Greater(leaderboard, event.body[i].id)
       /\ event.body[i].rank <= AtLeast(leaderboard, event.body[i].id)

C17_Witness ==
  /\ Answered
  /\ \E i \in 1..Len(event.body) :
        event.body[i].rank > 1 + Greater(leaderboard, event.body[i].id)

\* the rows of the store in descending id order
RowsDown ==
  LET rows == SelectPage(0, Len(money), 0)
  IN  [i \in 1..Len(rows) |-> rows[Len(rows) + 1 - i]]

\* the sorted set loaded in two chunks, the upper half of the ids first
TwoChunks ==
  LET rows == SelectPage(0, Len(money), 0)
      k    == Len(rows) \div 2
  IN  ZAddAll(ZAddAll(EmptySet, SubSeq(rows, k + 1, Len(rows))), SubSeq(rows, 1, k))

\* C18: a request naming no player against a loaded store of n <= 100 players
\* returns all n, ranked 1..n in the order fixed by score and, among equal
\* scores, by the member string; loading the same rows in another order or in
\* other chunks gives the same sorted set
C18_TieBreak ==
  [][\A r \in Reqs :
       (ListReply(r) /\ rq[r].playerId = NoPlayer /\ Len(money) <= 100) =>
          /\ Len(event'.body) = Len(money)
          /\ \A i \in 1..Len(event'.body) : event'.body[i].rank = i
          /\ \A i, j \in 1..Len(event'.body) :
                i < j => RevBefore(money, event'.body[i].id, event'.body[j].id)
          /\ SameMap(ZAddAll(EmptySet, RowsDown), leaderboard)
          /\ SameMap(TwoChunks, leaderboard)]_vars

C18_Witness ==
  /\ Answered
  /\ money = <<500, 300, 300>>
  /\ event.body = <<[id |-> 1, money |-> 500, rank |-> 1],
                     [id |-> 3, money |-> 300, rank |-> 2],
                     [id |-> 2, money |-> 300, rank |-> 3]>>

RECURSIVE SumSeq(_, _, _)
SumSeq(q, lo, hi) ==
  IF lo > hi THEN 0
  ELSE IF lo = hi THEN q[lo]
  ELSE SumSeq(q, lo, (lo + hi) \div 2) + SumSeq(q, (lo + hi) \div 2 + 1, hi)

\* a is num/den rounded to the nearest integer, halves upward
IsRounded(a, num, den) == 2 * a * den <= 2 * num + den /\ 2 * num + den < 2 * (a + 1) * den

\* the step in which distributeWeeklyRewards has read the top window and
\* issued its updates
Distributed == pc["weekly"] = "zrevrange" /\ pc'["weekly"] = "pay"

\* the members of the top window in rank order, and their scores
TopWindow == ZRevRange(leaderboard, 0, 99)
ScoresOf(top) == [i \in 1..Len(top) |-> leaderboard[top[i]]]

\* the amounts of the updates issued for the member at 1-based rank k
IssuedFor(top, k) == {u.amount : u \in {v \in wk'.pending : v.id = top[k]}}

\* C19: over exactly 100 ranked players with score total T the updates issued
\* are round(0.20 * 0.02 T), round(0.15 * 0.02 T), round(0.10 * 0.02 T) for
\* ranks 1..3 and round(0.55 * 0.02 T / 97) for each of ranks 4..100; for
\* T = 1,000,000 they are 4000, 3000, 2000 and 113
C19_PayoutTable ==
  [][(Distributed /\ Cardinality(DOMAIN leaderboard) = 100) =>
       \A top \in {TopWindow} : \A T \in {SumSeq(ScoresOf(top), 1, Len(top))} :
          /\ Cardinality(wk'.pending) = 100
          /\ \A k \in 1..100 : Cardinality(IssuedFor(top, k)) = 1
          /\ \A a \in IssuedFor(top, 1) : IsRounded(a, 4 * T, 1000)
          /\ \A a \in IssuedFor(top, 2) : IsRounded(a, 3 * T, 1000)
          /\ \A a \in IssuedFor(top, 3) : IsRounded(a, 2 * T, 1000)
          /\ \A k \in 4..100 : \A a \in IssuedFor(top, k) : IsRounded(a, 11 * T, 97000)
          /\ T = 1000000 =>
                /\ IssuedFor(top, 1) = {4000}
                /\ IssuedFor(top, 2) = {3000}
                /\ IssuedFor(top, 3) = {2000}
                /\ \A k \in 4..100 : IssuedFor(top, k) = {113}]_vars

C19_Witness ==
  /\ pc["weekly"] = "pay"
  /\ Cardinality(wk.pending) = 100
  /\ Cardinality(DOMAIN leaderboard) = 100
  /\ \A p \in DOMAIN leaderboard : leaderboard[p] = 10000
  /\ \E u \in wk.pending : u.amount = 4000
  /\ \E u \in wk.pending : u.amount = 3000
  /\ \E u \in wk.pending : u.amount = 2000
  /\ Cardinality({u \in wk.pending : u.amount = 113}) = 97

\* the amount issued for each member of the top window, in rank order
AmountsOf(top) ==
  [i \in 1..Len(top) |-> (CHOOSE u \in wk'.pending : u.id = top[i]).amount]

\* C20: for every distribution the payouts issued sum to the pool, 0.02 x the
\* total of the scores read, up to 0.5 for each payout
C20_Conservation ==
  [][Distributed =>
       \A top \in {TopWindow} :
         \A T \in {SumSeq(ScoresOf(top), 1, Len(top))} :
           \A paid \in {SumSeq(AmountsOf(top), 1, Len(top))} :
              /\ Cardinality(wk'.pending) = Len(top)
              /\ 100 * paid - 2 * T <= 50 * Len(top)
              /\ 2 * T - 100 * paid <= 50 * Len(top)]_vars

\* C21: with N < 100 ranked entities the updates issued are the three fixed
\* shares for ranks 1..3 and round(0.55 x pool / (N - 3)) for each of ranks 4..N
C21_ShortSchedule ==
  [][(Distributed /\ Cardinality(DOMAIN leaderboard) < 100) =>
       \A top \in {TopWindow} : \A T \in {SumSeq(ScoresOf(top), 1, Len(top))} :
          /\ Cardinality(wk'.pending) = Len(top)
          /\ \A k \in 1..Len(top) : Cardinality(IssuedFor(top, k)) = 1
          /\ \A k \in 1..Min(3, Len(top)) :
                \A a \in IssuedFor(top, k) : IsRounded(a, (5 - k) * T, 1000)
          /\ \A k \in 4..Len(top) :
                \A a \in IssuedFor(top, k) : IsRounded(a, 11 * T, 1000 * (Len(top) - 3))]_vars

\* the step in which the weekly handler, all its updates applied, calls
\* initializeLeaderboard
PayoutsDone == pc["weekly"] = "pay" /\ pc'["weekly"] # "pay" /\ event'.what # "payError"

\* the step in which the rebuild called by the weekly handler completes
WeeklyRebuilt ==
  pc["weekly"] = "init" /\ ini["weekly"].pc = "setDone" /\ pc'["weekly"] = "idle"

\* C22: when the updates of a distribution have all completed the rebuild the
\* handler calls is entered, not skipped, and when that rebuild completes the
\* sorted set holds every paid player with the player's money in the store
C22_RebuildAfterPayout ==
  [][/\ PayoutsDone => pc'["weekly"] = "init"
     /\ WeeklyRebuilt =>
          \A p \in wk.paid : p \in DOMAIN leaderboard' /\ leaderboard'[p] = money'[p]]_vars

\* a step of the rebuild of caller c in which the pipeline threw a RangeError
InitOverflowed(c) ==
  /\ pc[c] = "init" /\ ini[c].pc = "writeChunk"
  /\ event'.task = c
  /\ event'.what = "overflow" \/ event'.error = "RangeError"

\* the first write of the first page, the chunk size not yet halved
FirstChunk(c) ==
  /\ ini[c].offset = 0 /\ ini[c].i = 0
  /\ ini[c].chunkSizeRedis = Min(InitChunkSizeRedis, Len(ini[c].rows))

\* C23: an overflow on the first chunk write of a rebuild halves the chunk
\* size and the rebuild goes on, for every non-empty store
C23_SingleOverflow ==
  [][\A c \in Callers :
       (InitOverflowed(c) /\ FirstChunk(c)) =>
          /\ pc'[c] = "init"
          /\ ini'[c].pc = "writeChunk"
          /\ ini'[c].chunkSizeRedis = Halve(ini[c].chunkSizeRedis)]_vars

\* C24: every overflow of a rebuild halves the chunk size, the rebuild going on
\* with the same rows if the half is at least 1000 and aborting if not; the
\* chunk size grows only in the step that completes a page, all rows applied
C24_BatchMonotone ==
  [][\A c \in Callers :
       /\ InitOverflowed(c) =>
            IF Halve(ini[c].chunkSizeRedis) < MinBatch
            THEN pc'[c] # "init" /\ event'.what = "initError"
            ELSE /\ pc'[c] = "init"
                 /\ ini'[c] = [ini[c] EXCEPT !.chunkSizeRedis = Halve(ini[c].chunkSizeRedis)]
                 /\ ini'[c].chunkSizeRedis < ini[c].chunkSizeRedis
       /\ (/\ pc[c] = "init" /\ pc'[c] = "init" /\ ini[c].pc # "setOffset"
           /\ ini'[c].chunkSizeRedis > ini[c].chunkSizeRedis) =>
            /\ ini[c].pc = "writeChunk" /\ ini'[c].pc = "readPage"
            /\ ini'[c].i = Len(ini[c].rows)
            /\ ini'[c].offset = ini[c].offset + Len(ini[c].rows)
            /\ ini'[c].totalProcessed = ini'[c].offset
            /\ ini'[c].chunkSizeRedis = Min(ini[c].chunkSizeRedis * 2, MaxChunkSizeRedis)]_vars

\* a page of two batches whose chunk size was halved twice, 1000 rows written
C24_Witness ==
  /\ pc["startup"] = "init" /\ ini["startup"].pc = "writeChunk"
  /\ Len(ini["startup"].rows) = 2 * BulkRows
  /\ ini["startup"].chunkSizeRedis = Halve(Halve(2 * BulkRows))
  /\ ini["startup"].i = ini["startup"].chunkSizeRedis
  /\ event.what # "overflow"

\* a step of the rebuild of caller c in which the page query failed
InitReadFailed(c) ==
  /\ pc[c] = "init" /\ ini[c].pc = "readPage"
  /\ event'.task = c
  /\ event'.what = "readFailed" \/ event'.what = "initError"

\* C27: a failed page query of a rebuild halves pageSizeDB and leaves offset,
\* applied count and sorted set as they are, the query being retried, unless
\* the half is below 1000, and then the rebuild aborts; no query is made with
\* a page size below 1000
C27_ReadBackoff ==
  [][\A c \in Callers :
       /\ InitReadFailed(c) =>
            IF Halve(ini[c].pageSizeDB) < MinBatch
            THEN pc'[c] # "init" /\ event'.what = "initError" /\ ~ processing'
            ELSE /\ pc'[c] = "init"
                 /\ ini'[c] = [ini[c] EXCEPT !.pageSizeDB = Halve(ini[c].pageSizeDB)]
                 /\ leaderboard' = leaderboard
       /\ (pc[c] = "init" /\ ini[c].pc = "readPage") => ini[c].pageSizeDB >= MinBatch]_vars

\* after a page was applied the query has failed again and again, down to the
\* last page size from which one more failure aborts
C27_Witness ==
  /\ event.what = "readFailed" /\ event.task = "startup"
  /\ ini["startup"].pageSizeDB < 2 * MinBatch
  /\ ini["startup"].offset = Len(money) /\ Len(money) > 0
  /\ ini["startup"].totalProcessed = ini["startup"].offset

\* a step in which the page query of a delta-sync pass failed
DeltaReadFailed ==
  /\ pc["delta"] = "query"
  /\ event'.task = "delta"
  /\ event'.what = "readFailed" \/ event'.what = "deltaError"

\* C28: a failed page query of a delta-sync pass is retried at the same offset
\* (the pass goes on) as long as the halved page size is at least 1000
C28_DeltaReadBackoff ==
  [][(DeltaReadFailed /\ Halve(DeltaPageSizeDB) >= MinBatch) =>
       /\ pc'["delta"] = "query"
       /\ dl'.syncOffset = dl.syncOffset
       /\ dl'.lastKnownId = dl.lastKnownId]_vars

\* a step of a delta-sync pass in which the pipeline threw a RangeError
DeltaOverflowed ==
  /\ pc["delta"] = "writeChunk"
  /\ event'.task = "delta"
  /\ event'.what = "overflow" \/ event'.error = "RangeError"

\* the rebuild of caller c stays at the same chunk write with changed locals
InitRetried(c) ==
  /\ pc[c] = "init" /\ ini[c].pc = "writeChunk"
  /\ pc'[c] = "init" /\ ini'[c].pc = "writeChunk"
  /\ ini'[c] # ini[c] /\ ini'[c].i = ini[c].i

\* the delta-sync pass stays at the same chunk write with changed locals
DeltaRetried ==
  /\ pc["delta"] = "writeChunk" /\ pc'["delta"] = "writeChunk"
  /\ dl' # dl /\ dl'.i = dl.i

\* C29: in the rebuild and in a delta-sync pass an overflow halves the chunk
\* size and the write is retried from the same row with the same rows, the
\* sorted set untouched, unless the half is below 1000, and then the operation
\* aborts; a write is retried only after an overflow, so any other error of
\* the pipeline ends the operation
C29_WriteBackoff ==
  [][/\ \A c \in Callers :
          /\ InitOverflowed(c) =>
               /\ leaderboard' = leaderboard
               /\ IF Halve(ini[c].chunkSizeRedis) < MinBatch
                  THEN pc'[c] # "init" /\ ini'[c] = IdleFrame
                  ELSE /\ InitRetried(c)
                       /\ ini'[c].rows = ini[c].rows
                       /\ ini'[c].totalProcessed = ini[c].totalProcessed
                       /\ ini'[c].chunkSizeRedis = Halve(ini[c].chunkSizeRedis)
          /\ InitRetried(c) => InitOverflowed(c)
          /\ (pc[c] = "init" /\ ini[c].pc = "writeChunk" /\ event'.task = c
              /\ event'.error = "Error") => pc'[c] # "init" /\ leaderboard' = leaderboard
     /\ DeltaOverflowed =>
          /\ leaderboard' = leaderboard
          /\ sync_offset' = sync_offset
          /\ IF Halve(dl.chunkSizeRedis) < MinBatch
             THEN pc'["delta"] = "idle"
             ELSE /\ DeltaRetried
                  /\ dl'.rows = dl.rows
                  /\ dl'.chunkSizeRedis = Halve(dl.chunkSizeRedis)
     /\ DeltaRetried => DeltaOverflowed
     /\ (pc["delta"] = "writeChunk" /\ event'.task = "delta" /\ event'.error = "Error") =>
          pc'["delta"] = "idle" /\ leaderboard' = leaderboard]_vars

\* a delta-sync pass over a batch of new rows retries its first chunk with
\* half the rows after an overflow
C29_Witness ==
  /\ pc["delta"] = "writeChunk"
  /\ event.task = "delta" /\ event.what = "overflow"
  /\ Len(dl.rows) >= 2 * MinBatch
  /\ dl.i = 0
  /\ dl.chunkSizeRedis = Halve(Len(dl.rows))

\* the step in which the rebuild of caller c sets the readiness flag and returns
InitCompleted(c) ==
  pc[c] = "init" /\ ini[c].pc = "setDone" /\ event'.task = c /\ event'.what = "initOk"

\* C30: when a rebuild completes, last_known_id holds the maximum id it read
\* after its load loop and sync_offset holds 0
C30_MarkersAtCompletion ==
  [][\A c \in Callers :
       InitCompleted(c) =>
          /\ init_done' = <<1>>
          /\ last_known_id' = toString(ini[c].maxId)
          /\ sync_offset' = <<0>>]_vars

\* every row of the slice is a member of lb with the row's money as score
Applied(lb, slice) ==
  \A n \in 1..Len(slice) : slice[n].id \in DOMAIN lb /\ lb[slice[n].id] = slice[n].money

\* the step in which a delta-sync pass has written a chunk
DeltaWrote == pc["delta"] = "writeChunk" /\ dl'.i > dl.i

\* the step in which the rebuild of caller c has written a chunk
InitWrote(c) == pc[c] = "init" /\ ini[c].pc = "writeChunk" /\ ini'[c].i > ini[c].i

\* C25: writing a chunk a second time changes nothing: the sorted set after a
\* chunk write is a fixed point of that write, and a delta-sync pass whose
\* chunk is already held with the same scores leaves the sorted set as it is
C25_Idempotent ==
  [][/\ DeltaWrote =>
          \A slice \in {Slice(dl.rows, dl.i, dl'.i)} :
             /\ Applied(leaderboard', slice)
             /\ ZAddAll(leaderboard', slice) = leaderboard'
             /\ Applied(leaderboard, slice) => leaderboard' = leaderboard
     /\ \A c \in Callers :
          InitWrote(c) =>
             \A slice \in {Slice(ini[c].rows, ini[c].i, ini'[c].i)} :
                /\ Applied(leaderboard', slice)
                /\ ZAddAll(leaderboard', slice) = leaderboard']_vars

\* after a completed rebuild a delta-sync pass has read, at the offset and
\* above the id the keys hold, a page whose first chunk an earlier pass wrote
C25_Witness ==
  /\ pc["delta"] = "writeChunk" /\ dl.i = 0 /\ Len(dl.rows) > 0
  /\ init_done = <<1>> /\ ~ processing
  /\ dl.lastKnownId = ParseOrZero(last_known_id)
  /\ dl.syncOffset = ParseOrZero(sync_offset)
  /\ Applied(leaderboard, Slice(dl.rows, 0, dl.chunkSizeRedis))

\* a group reply of request r
GroupReply(r) ==
  /\ pc[r] = "groupQuery"
  /\ event'.task = r /\ event'.what = "reply" /\ event'.kind = "group"
  /\ event'.status = 200

\* the players of country k in the store
PlayersOf(k) == {p \in DOMAIN money : CountryOf(p) = k}

\* the positions of the rows of country k in a body
RowsOf(body, k) == {i \in 1..Len(body) : body[i].country = k}

\* C26: a group reply holds, for every country with players in the store, rows
\* for min(10, size) of its players, none of lower money than a player left
\* out, carrying the ranks 1..min(10, size) in descending money order; every
\* row shows the store's money; the rows are ordered by country name, then
\* rank; the sorted set has no part in it
C26_GroupQuery ==
  [][\A r \in Reqs :
       GroupReply(r) =>
         \A body \in {event'.body} :
           /\ \A i \in 1..Len(body) :
                /\ body[i].id \in DOMAIN money
                /\ body[i].country = CountryOf(body[i].id)
                /\ body[i].money = money[body[i].id]
           /\ \A i, j \in 1..Len(body) : i # j => body[i].id # body[j].id
           /\ \A k \in 1..NumCountries :
                /\ Cardinality(RowsOf(body, k)) = Min(GroupTop, Cardinality(PlayersOf(k)))
                /\ {body[i].rank : i \in RowsOf(body, k)}
                     = 1..Min(GroupTop, Cardinality(PlayersOf(k)))
                /\ \A i, j \in RowsOf(body, k) :
                     body[i].rank < body[j].rank => body[i].money >= body[j].money
                /\ \A i \in RowsOf(body, k) :
                     \A p \in PlayersOf(k) \ {body[j].id : j \in RowsOf(body, k)} :
                        money[p] <= body[i].money
           /\ \A i \in 1..(Len(body) - 1) :
                \/ NameKey(body[i].country) < NameKey(body[i + 1].country)
                \/ /\ body[i].country = body[i + 1].country
                   /\ body[i].rank < body[i + 1].rank]_vars

\* a reply over 50 players: ten rows for each of the two large countries and
\* seven for the small one, whose name sorts last
C26_Witness ==
  /\ event.what = "reply" /\ event.kind = "group" /\ event.status = 200
  /\ Len(money) = 50
  /\ Len(event.body) = 27
  /\ event.body[1].country = NumCountries /\ event.body[1].rank = 1
  /\ event.body[27].country = 1 /\ event.body[27].rank = 7

\* the ids up to the value the key last_known_id holds
KnownIds(key) == 1..ParseOrZero(key)

\* C31: when a rebuild completes, every player of the store with an id up to
\* last_known_id is a member of the sorted set, players created while the
\* rebuild ran included
C31_KnownIdsLoaded ==
  [][\A c \in Callers :
       InitCompleted(c) =>
          \A p \in KnownIds(last_known_id') \cap DOMAIN money' : p \in DOMAIN leaderboard']_vars

\* a step of the delta cron handler or of syncOnePageOfNewPlayers
DeltaStep == pc'["delta"] # pc["delta"] \/ dl' # dl \/ event'.task = "delta"

\* a step of initializeLeaderboard
InitStep == \E c \in Callers : pc[c] = "init" /\ ini'[c] # ini[c]

\* C32: no step of a delta-sync pass, whether it applies rows, finds none or
\* fails, changes last_known_id or init_done; every step that changes one of
\* them is a step of initializeLeaderboard
C32_DeltaKeepsMarkers ==
  [][/\ DeltaStep => (last_known_id' = last_known_id /\ init_done' = init_done)
     /\ (last_known_id' # last_known_id \/ init_done' # init_done) => InitStep]_vars

\* after a completed rebuild a pass has applied a batch of new rows: the
\* offset has moved by the batch, last_known_id is still below the new ids
C32_Witness ==
  /\ init_done = <<1>> /\ pc["delta"] = "idle"
  /\ sync_offset = toString(BulkRows)
  /\ last_known_id = toString(Len(money) - BulkRows)
  /\ SameMap(leaderboard, money)

\* rows is the page of the players with id > above, in ascending id order,
\* that starts after the first c of them and holds at most lim rows
PageLaw(rows, above, c, lim) ==
  \A newIds \in {{p \in DOMAIN money : p > above}} :
     /\ Len(rows) = Min(lim, Max(Cardinality(newIds) - c, 0))
     /\ \A n \in 1..Len(rows) :
          /\ rows[n].id \in newIds
          /\ rows[n].money = money[rows[n].id]
          /\ Cardinality({p \in newIds : p < rows[n].id}) = c + n - 1

\* the ids of a sequence of rows
RowIds(rows) == {rows[n].id : n \in 1..Len(rows)}

\* C33: a pass reads the page of the players above last_known_id at the
\* offset c it read from sync_offset; with n > 0 rows it writes those rows and
\* no others to the sorted set, then sets sync_offset to c + n, and the
\* handler goes on to the next pass unless it was the fifth; with no rows it
\* writes nothing to the sorted set, sets sync_offset to 0, and the handler
\* stops; no trigger runs more than five passes
C33_DeltaPass ==
  [][/\ (pc["delta"] = "getOffset" /\ pc'["delta"] = "query") =>
          dl'.syncOffset = ParseOrZero(sync_offset)
     /\ (pc["delta"] = "query" /\ pc'["delta"] # "query" /\ event'.what # "deltaError") =>
          /\ PageLaw(dl'.rows, dl.lastKnownId, dl.syncOffset, DeltaPageSizeDB)
          /\ pc'["delta"] = (IF Len(dl'.rows) = 0 THEN "resetOffset" ELSE "writeChunk")
     /\ (DeltaStep /\ pc["delta"] = "writeChunk") =>
          /\ DOMAIN leaderboard \subseteq DOMAIN leaderboard'
          /\ \A p \in DOMAIN leaderboard' \ RowIds(dl.rows) :
               p \in DOMAIN leaderboard /\ leaderboard'[p] = leaderboard[p]
     /\ (DeltaStep /\ pc["delta"] # "writeChunk") => leaderboard' = leaderboard
     /\ (DeltaStep /\ pc["delta"] = "setOffset") =>
          /\ Len(dl.rows) > 0 /\ dl.i = Len(dl.rows)
          /\ Applied(leaderboard, dl.rows)
          /\ sync_offset' = toString(dl.syncOffset + Len(dl.rows))
          /\ IF dl.j + 1 < MaxDeltaPages
             THEN pc'["delta"] = "getLastKnown" /\ dl'.j = dl.j + 1
             ELSE pc'["delta"] = "idle"
     /\ (DeltaStep /\ pc["delta"] = "resetOffset") =>
          /\ Len(dl.rows) = 0
          /\ sync_offset' = <<0>>
          /\ pc'["delta"] = "idle"
     /\ (pc["delta"] = "idle" /\ pc'["delta"] # "idle") => dl'.j = 0
     /\ dl.j < MaxDeltaPages]_vars

\* the fifth pass of one trigger has applied its row, read at offset 4, while
\* a sixth new player is waiting in the store
C33_Witness ==
  /\ pc["delta"] = "setOffset" /\ dl.j = MaxDeltaPages - 1
  /\ dl.syncOffset = 4 /\ Len(dl.rows) = 1
  /\ Applied(leaderboard, dl.rows)
  /\ Len(money) > dl.rows[1].id

\* C34: every entry of a result list carries a rank that is an integer >= 1,
\* never null, whatever runs beside the query
C34_RankNeverNull ==
  Answered => \A i \in 1..Len(event.body) : event.body[i].rank # Null /\ event.body[i].rank >= 1

\* a step of the weekly handler inside distributeWeeklyRewards, or the
\* completion of one of its updates
RewardStep ==
  \/ pc["weekly"] \in {"zrevrange", "pay"} /\ pc'["weekly"] # pc["weekly"]
  \/ wk'.pending # wk.pending

\* C35: a distribution issues exactly one update for every member of the top
\* window it read and none for any other player, each with an amount >= 0;
\* the money of a player changes only by one pending update being applied,
\* which adds its amount and is then gone; the handler goes on only when all
\* updates of the distribution are applied; no step of the distribution writes
\* the sorted set or one of the three keys
C35_PayoutFrame ==
  [][/\ Distributed =>
          \A top \in {TopWindow} :
             /\ wk'.pending \ wk.pending = {u \in wk'.pending : u.week = weeks}
             /\ \A k \in 1..Len(top) : Cardinality({u \in wk'.pending \ wk.pending : u.id = top[k]}) = 1
             /\ \A u \in wk'.pending \ wk.pending :
                  /\ u.amount >= 0
                  /\ \E k \in 1..Len(top) : top[k] = u.id
             /\ wk'.paid = {top[k] : k \in 1..Len(top)}
     /\ \A p \in DOMAIN money :
          money'[p] # money[p] =>
             \E u \in wk.pending :
                /\ u.id = p
                /\ money'[p] = money[p] + u.amount
                /\ wk'.pending = wk.pending \ {u}
                /\ \A q \in DOMAIN money \ {p} : money'[q] = money[q]
     /\ (wk'.pending # wk.pending /\ ~ Distributed) =>
          \E u \in wk.pending : wk'.pending = wk.pending \ {u}
     /\ PayoutsDone => \A u \in wk.pending : u.week # weeks
     /\ RewardStep => redis' = redis]_vars

\* a distribution over the window {1} has paid player 1 its share and is
\* over; player 2, in the store but not in the window, keeps its money
C35_Witness ==
  /\ wk.paid = {1} /\ wk.pending = {}
  /\ pc["weekly"] # "pay"
  /\ money = <<1004, 1000>>

\* a step of the rebuild of caller c in which a chunk was written
ChunkWritten(c) ==
  /\ pc[c] = "init" /\ ini[c].pc = "writeChunk"
  /\ pc'[c] = "init" /\ event'.task # c

\* C36: over a store that receives no inserts a rebuild that has started
\* ends, by completing or by aborting, whatever page queries fail and whatever
\* chunk writes overflow; every chunk written moves the row index on by at
\* least one row
C36_RebuildTerminates ==
  /\ \A c \in {"startup"} : RebuildRunning(c) ~> (~ RebuildRunning(c) /\ ~ processing)
  /\ [][\A c \in Callers : ChunkWritten(c) => ini'[c].i >= ini[c].i + 1]_vars

\* the rebuild has ended by aborting after the whole store was applied: the
\* page query that follows, or the max-id query, kept failing
C36_Witness ==
  /\ pc["startup"] = "done" /\ event.what = "initError" /\ ~ processing
  /\ Len(money) = BulkRows
  /\ SameMap(leaderboard, money)

\* no task is between two awaits and no update is outstanding
Quiescent ==
  /\ \A t \in Tasks : pc[t] \in {"idle", "done"}
  /\ wk.pending = {}

\* C37: when a rebuild completes with the store as it was when the rebuild
\* began and every other operation finished, every member of the sorted set
\* holds the money of the store: no write of a delta-sync pass with rows read
\* before the rebuild has replaced a rebuilt score
C37_NoStaleScore ==
  [][\A c \in Callers :
       (InitCompleted(c) /\ money = ini[c].money0 /\ Quiescent') =>
          \A p \in DOMAIN leaderboard' : leaderboard'[p] = money'[p]]_vars

\* the step in which caller c calls initializeLeaderboard
Calls(c) ==
  \/ c = "startup" /\ pc[c] = "start" /\ pc'[c] # "start"
  \/ c = "weekly" /\ PayoutsDone
  \/ c \in Reqs /\ pc[c] \in {"exists", "zcard"} /\ pc'[c] # pc[c] /\ DOMAIN leaderboard = {}

\* the callers inside initializeLeaderboard, the lock taken
Rebuilders == {c \in Callers : RebuildRunning(c)}

\* C38: at most one caller is inside initializeLeaderboard past the lock test;
\* a call tests and sets the flag in one step: with the flag clear it sets
\* it and starts the rebuild, with the flag set it returns at once, changing
\* neither the flag nor the sorted set nor a key, another caller's rebuild
\* being in progress
C38_OneRebuild ==
  /\ [](Cardinality(Rebuilders) <= 1)
  /\ [][\A c \in Callers :
          /\ Calls(c) =>
               IF processing
               THEN /\ event'.task = c /\ event'.what = "initSkipped"
                    /\ ~ RebuildRunning(c)'
                    /\ Rebuilders # {} /\ Rebuilders' = Rebuilders
                    /\ UNCHANGED <<processing, ini, redis, money>>
               ELSE /\ Rebuilders = {} /\ Rebuilders' = {c}
                    /\ processing'
          /\ (~ RebuildRunning(c) /\ RebuildRunning(c)') => Calls(c)]_vars

\* a request that found the sorted set empty has called initializeLeaderboard
\* while the rebuild of the weekly handler held the lock, and was turned away
C38_Witness ==
  /\ event.task \in Reqs /\ event.what = "initSkipped"
  /\ RebuildRunning("weekly") /\ processing

\* the step in which a delta-sync pass throws
DeltaThrew ==
  /\ pc["delta"] \in {"query", "writeChunk"}
  /\ event'.task = "delta" /\ event'.what = "deltaError"

\* C39: the step in which a pass throws leaves sync_offset and last_known_id
\* as they are, which is as the pass read them; the handler is idle again and
\* no other task and not the lock is touched; outside a rebuild sync_offset is
\* written only by a pass that has applied its page or found it empty, so
\* the first pass of the next trigger, which reads the key, reads the offset
\* of the pass that failed
C39_DeltaAbort ==
  [][/\ DeltaThrew =>
          /\ sync_offset' = sync_offset /\ last_known_id' = last_known_id
          /\ ParseOrZero(sync_offset') = dl.syncOffset
          /\ ParseOrZero(last_known_id') = dl.lastKnownId
          /\ pc' = [pc EXCEPT !["delta"] = "idle"]
          /\ event'.error \in {"Error", "RangeError"}
          /\ UNCHANGED <<processing, ini, wk, rq, init_done, money>>
     /\ ((sync_offset' # sync_offset \/ last_known_id' # last_known_id) /\ ~ InitStep) =>
          pc["delta"] \in {"setOffset", "resetOffset"}
     /\ (pc["delta"] = "idle" /\ pc'["delta"] # "idle") => pc'["delta"] = "getLastKnown"
     /\ (pc["delta"] = "getLastKnown" /\ pc'["delta"] = "getOffset") =>
          dl'.lastKnownId = ParseOrZero(last_known_id)
     /\ (pc["delta"] = "getOffset" /\ pc'["delta"] = "query") =>
          dl'.syncOffset = ParseOrZero(sync_offset)]_vars

\* a pass over a batch of new rows has written its first 1000 rows and then
\* thrown because the chunk size fell below 1000; sync_offset is still 0
C39_Witness ==
  /\ event.task = "delta" /\ event.what = "deltaError" /\ event.error = "RangeError"
  /\ pc["delta"] = "idle"
  /\ sync_offset = <<0>>
  /\ Cardinality(DOMAIN leaderboard) = ParseOrZero(last_known_id) + MinBatch

\* the step in which the weekly handler of server.ts, all updates applied,
\* has called initializeLeaderboard
MonoPayoutsDone == pc["weekly"] = "pay" /\ pc'["weekly"] # "pay"

\* C40: in server.ts the call of initializeLeaderboard that follows the
\* updates of a distribution starts a rebuild, and when the handler releases
\* the flag the sorted set holds every paid player with the money of the store
C40_MonoRebuilds ==
  [][/\ MonoPayoutsDone => RebuildRunning("weekly")'
     /\ (pc["weekly"] # "idle" /\ processing /\ ~ processing') =>
          \A p \in wk.paid : p \in DOMAIN leaderboard' /\ leaderboard'[p] = money'[p]]_vars

====
